---- MODULE Spec2Model ----
(***************************************************************************)
(* PNG2Vector: the contour extractor (apps/server/src/trace/contour.ts)    *)
(* and the geometry validator (apps/server/src/trace/geometry.ts) as state *)
(* machines.                                                               *)
(*                                                                         *)
(* A bitmap is a record [width, height, data]; data[i] stands for the R    *)
(* byte data[4*i] of pixel i = y*width + x, the only byte the extractor    *)
(* reads (0 = foreground, 255 = background).                               *)
(***************************************************************************)
EXTENDS Integers, Sequences, FiniteSets, TLC

VARIABLES
  imageData,    \* the bitmap handed to extractContours
  pc,           \* position of extractContours: scan, trace, push, holescan,
                \* holetrace, attach, done (idle when the extractor is not run)
  x, y,         \* the loop variables of the scan in progress
  visited,      \* the visited array of the scan in progress (set of indices)
  contours,     \* contours / result: the contours collected so far
  startX, startY, currentX, currentY, direction, points   \* traceContour's locals

VARIABLES
  polygons,       \* the polygon list handed to validateGeometry or cleanupGeometry
  gpc,            \* position of the geometry function under way (idle when none)
  vi,             \* validateGeometry: index of the polygon the loop is at
  validPolygons,  \* validateGeometry: the output list
  emitted,        \* for each polygon of validPolygons, the index of its input
  minArea,        \* cleanupGeometry's threshold
  cleaned,        \* cleanupGeometry's result
  repairs,        \* validateGeometry: what the polygon-clipping library did for
                  \* each polygon the loop has been through
  closings        \* a ring, then the results of closing it again and again

contourVars == <<imageData, pc, x, y, visited, contours,
                 startX, startY, currentX, currentY, direction, points>>

VARIABLES
  whiteFill,      \* generateDXF / generateMinimalDXF: the fill flag
  dxf,            \* the lines of generateDXF's result (<<>> before the call)
  minimalDxf      \* the lines of generateMinimalDXF's result

VARIABLES
  winding         \* ensureWindingOrder: its arguments, then its result as well

VARIABLES
  build,          \* which of the two trace/index.ts of the repository is built
  imageSize,      \* Math.max(width, height) of the decoded image
  body,           \* req.file and req.body of the POST /api/trace under way
  spc,            \* position of the handler and of traceImage
  request,        \* the TraceRequest handed to traceImage
  options,        \* the ProcessingOptions of the run
  hed,            \* what processWithHED did in this run
  processedImage, \* what traceImage hands to the raster stages
  calls,          \* how many times the handler called traceImage
  responses       \* the responses the handler has sent

VARIABLES
  dedup,          \* removeDuplicatePoints: a ring, then its results as well
  simplifyRun,    \* simplifyContours: its arguments, then its result as well
  raster,         \* the raster function under way: its image and its locals
  validity,       \* isValidPolygon: a polygon, then its result as well
  hedProc         \* the process of hed.ts: hedSession and the calls under way

geomVars == <<polygons, gpc, vi, validPolygons, emitted, repairs, minArea, cleaned,
              closings>>

exportVars == <<whiteFill, dxf, minimalDxf>>

serverVars == <<build, imageSize, body, spc, request, options, hed, processedImage,
                calls, responses>>

\* what the geometry functions leave alone besides the extractor's state
lateVars == <<dedup, simplifyRun, raster, validity, hedProc>>

moreVars == <<exportVars, winding, serverVars, lateVars>>

\* what the contour extractor leaves alone
otherVars == <<geomVars, moreVars>>

vars == <<contourVars, geomVars, moreVars>>

---------------------------------------------------------------------------
(* Bounds of the model *)

\* bitmaps of every shape width x height with width*height <= MaxCells
MaxCells == 9
\* side of the largest grid that holds the solid rectangles
RectGrid == 5
\* points a trace records; further pushes of a trace that never ends are not
\* recorded (every trace that ends is shorter, see TraceFullyRecorded)
MaxPoints == 24

---------------------------------------------------------------------------
(* Bitmaps *)

FG == 0
BG == 255

Image(w, h, fg) ==
  [width |-> w, height |-> h,
   data |-> [i \in 0..(w * h - 1) |-> IF i \in fg THEN FG ELSE BG]]

\* every binary bitmap of at most MaxCells pixels
SmallBitmaps ==
  UNION { { [width |-> s[1], height |-> s[2], data |-> d] :
              d \in [0..(s[1] * s[2] - 1) -> {FG, BG}] } :
          s \in { t \in (1..MaxCells) \X (1..MaxCells) : t[1] * t[2] <= MaxCells } }

\* one solid rw x rh rectangle (rw, rh >= 2) with its top-left pixel at
\* (x0, y0), surrounded by background, in a w x h bitmap
RectImage(w, h, x0, y0, rw, rh) ==
  Image(w, h, { yy * w + xx : xx \in x0..(x0 + rw - 1), yy \in y0..(y0 + rh - 1) })

RectBitmaps ==
  { RectImage(t[1], t[2], t[3], t[4], t[5], t[6]) :
      t \in { u \in (4..RectGrid) \X (4..RectGrid) \X (1..RectGrid) \X (1..RectGrid)
                    \X (2..RectGrid) \X (2..RectGrid) :
                u[3] + u[5] <= u[1] - 1 /\ u[4] + u[6] <= u[2] - 1 } }

\* the patterns of the extractor's tests (1 = foreground in the test source)
Ring7 == Image(7, 7, { yy * 7 + xx : xx \in 1..5, yy \in 1..5 } \ {3 * 7 + 3})

FourBlobs7 == Image(7, 7, { yy * 7 + xx : xx \in {1, 2, 4, 5}, yy \in {1, 2, 4, 5} })

FourPixels5 == Image(5, 5, { yy * 5 + xx : xx \in {1, 3}, yy \in {1, 3} })

Ring5 == Image(5, 5, { yy * 5 + xx : xx \in 1..3, yy \in 1..3 } \ {2 * 5 + 2})

TestBitmaps == {Ring7, FourBlobs7, FourPixels5, Ring5}

\* a frame one pixel thick round a 4x4 interior that holds one foreground
\* pixel, at (2, 3): the background pixel (1, 4) has 6 foreground neighbours
DotInFrame6 ==
  Image(6, 6, { yy * 6 + xx : xx \in 0..5, yy \in {0, 5} } \cup
              { yy * 6 + xx : xx \in {0, 5}, yy \in 0..5 } \cup {3 * 6 + 2})

Bitmaps == SmallBitmaps \cup RectBitmaps \cup TestBitmaps \cup {DotInFrame6}

---------------------------------------------------------------------------
(* contour.ts: helpers *)

\* the 8-connected neighbour offsets of isContourStart and isHoleStart
neighbors ==
  << <<-1, -1>>, <<-1, 0>>, <<-1, 1>>, <<0, -1>>, <<0, 1>>, <<1, -1>>, <<1, 0>>, <<1, 1>> >>

\* traceContour's Moore directions, directions[d + 1] for direction d in 0..7:
\* N, NE, E, SE, S, SW, W, NW
directions ==
  << <<0, -1>>, <<1, -1>>, <<1, 0>>, <<1, 1>>, <<0, 1>>, <<-1, 1>>, <<-1, 0>>, <<-1, -1>> >>

InBounds(im, ix, iy) == ix >= 0 /\ ix < im.width /\ iy >= 0 /\ iy < im.height

\* data[(iy * width + ix) * 4]
Pixel(im, ix, iy) == im.data[iy * im.width + ix]

\* a foreground pixel qualifies when a neighbour is out of bounds or background
isContourStart(img, px, py) ==
  { k \in 1..8 :
      LET nx == px + neighbors[k][1]
          ny == py + neighbors[k][2]
      IN  IF InBounds(img, nx, ny) THEN Pixel(img, nx, ny) = BG ELSE TRUE } # {}

\* a background pixel qualifies when at least 6 in-bounds neighbours are black
isHoleStart(img, px, py) ==
  Cardinality({ k \in 1..8 :
                  LET nx == px + neighbors[k][1]
                      ny == py + neighbors[k][2]
                  IN  InBounds(img, nx, ny) /\ Pixel(img, nx, ny) = FG }) >= 6

\* the inner for loop of traceContour: the offsets i in 0..7 whose direction
\* (dir + i) % 8 leads from (cx, cy) to an in-bounds foreground pixel
FoundAt(img, cx, cy, dir) ==
  { i \in 0..7 :
      LET d  == directions[((dir + i) % 8) + 1]
      IN  InBounds(img, cx + d[1], cy + d[2]) /\ Pixel(img, cx + d[1], cy + d[2]) = FG }

Min(S) == CHOOSE m \in S : \A n \in S : m <= n

\* direction = (checkDir + 6) % 8
TurnLeft(checkDir) == (checkDir + 6) % 8

\* points.push, recorded up to MaxPoints
Push(pts, p) == IF Len(pts) < MaxPoints THEN Append(pts, p) ELSE pts

\* the loop condition of traceContour's do-while
KeepTracing(cx, cy, sx, sy, pts) == cx # sx \/ cy # sy \/ Len(pts) < 3

\* pointInPolygon: ray casting, inside toggles once per crossing edge (i, j)
\* with j the point before i, the last point before the first; the division
\* by (yj - yi) is multiplied out, with the sign of the divisor
Crosses(pt, pi, pj) ==
  /\ (pi.y > pt.y) # (pj.y > pt.y)
  /\ LET d == pj.y - pi.y
     IN  IF d > 0
         THEN (pt.x - pi.x) * d < (pj.x - pi.x) * (pt.y - pi.y)
         ELSE (pt.x - pi.x) * d > (pj.x - pi.x) * (pt.y - pi.y)

pointInPolygon(pt, polygon) ==
  LET n == Len(polygon)
  IN  Cardinality({ i \in 1..n :
                      Crosses(pt, polygon[i], polygon[IF i = 1 THEN n ELSE i - 1]) }) % 2 = 1

\* index (from 1) of the first contour whose exterior contains pt, 0 for -1
findContainingContour(cs, pt) ==
  LET hits == { i \in 1..Len(cs) : pointInPolygon(pt, cs[i].points) }
  IN  IF hits = {} THEN 0 ELSE Min(hits)

\* a threshold one too low: 3-point traces are kept
IsViableFromThree(pts) == Len(pts) > 2

\* a threshold one too high: 4-point traces are dropped
IsViableFromFive(pts) == Len(pts) > 4

\* a threshold too low: 2-point traces are kept
IsViableFromTwo(pts) == Len(pts) > 1

\* if (contour.points.length > 3) // Minimum viable contour
IsViable(pts) == Len(pts) > 3

\* the trace forgets to mark its pixels
MarkVisitedNot(vis, idx) == vis

\* visited[currentY * width + currentX] = true
MarkVisited(vis, idx) == vis \cup {idx}

---------------------------------------------------------------------------
(* contour.ts: extractContours, traceContour, findHoles *)

NoPoint == 0

\* generateDXF and generateMinimalDXF are not run
ExportIdle == whiteFill = FALSE /\ dxf = <<>> /\ minimalDxf = <<>>

\* ensureWindingOrder is not run
WindingIdle == winding = <<>>

\* no request is under way
ServerIdle ==
  /\ build = "none" /\ imageSize = 0 /\ body = <<>> /\ spc = "idle"
  /\ request = <<>> /\ options = <<>> /\ hed = "none" /\ processedImage = "none"
  /\ calls = 0 /\ responses = <<>>

\* none of the functions checked on their own is run
LateIdle ==
  /\ dedup = <<>> /\ simplifyRun = <<>> /\ raster = <<>> /\ validity = <<>>
  /\ hedProc = <<>>

MoreIdle == ExportIdle /\ WindingIdle /\ ServerIdle /\ LateIdle

\* no geometry function is under way
GeomIdle ==
  /\ MoreIdle
  /\ polygons = <<>> /\ gpc = "idle" /\ vi = 0
  /\ validPolygons = <<>> /\ emitted = <<>>
  /\ minArea = 0 /\ cleaned = <<>>
  /\ repairs = <<>> /\ closings = <<>>

ContourInit ==
  /\ GeomIdle
  /\ imageData \in Bitmaps
  /\ pc = "scan"
  /\ x = 0
  /\ y = 0
  /\ visited = {}
  /\ contours = <<>>
  /\ startX = NoPoint /\ startY = NoPoint
  /\ currentX = NoPoint /\ currentY = NoPoint
  /\ direction = 0
  /\ points = <<>>

traceLocals == <<startX, startY, currentX, currentY, direction, points>>

\* traceContour(imageData, sx, sy, visited) is entered
EnterTrace(sx, sy) ==
  /\ startX' = sx /\ startY' = sy
  /\ currentX' = sx /\ currentY' = sy
  /\ direction' = 0
  /\ points' = <<>>

\* x++ of the exterior scan, y++ at the end of a row
ScanAdvance ==
  IF x + 1 < imageData.width
  THEN x' = x + 1 /\ y' = y
  ELSE x' = 0 /\ y' = y + 1

\* one pixel of the row-major scan of extractContours that starts no trace
ScanSkip ==
  /\ pc = "scan" /\ y < imageData.height
  /\ ~( /\ (y * imageData.width + x) \notin visited
        /\ Pixel(imageData, x, y) = FG
        /\ isContourStart(imageData, x, y) )
  /\ ScanAdvance
  /\ UNCHANGED <<imageData, pc, visited, contours, traceLocals, otherVars>>

\* an unvisited foreground contour start: traceContour is called
ScanStart ==
  /\ pc = "scan" /\ y < imageData.height
  /\ (y * imageData.width + x) \notin visited
  /\ Pixel(imageData, x, y) = FG
  /\ isContourStart(imageData, x, y)
  /\ EnterTrace(x, y)
  /\ pc' = "trace"
  /\ UNCHANGED <<imageData, x, y, visited, contours, otherVars>>

\* one iteration of traceContour's do-while, for the exterior scan (pc =
\* "trace", then "push") and for findHoles (pc = "holetrace", then "attach")
TraceStep ==
  /\ pc \in {"trace", "holetrace"}
  /\ LET pts   == Push(points, [x |-> currentX, y |-> currentY])
         found == FoundAt(imageData, currentX, currentY, direction)
         after == IF pc = "trace" THEN "push" ELSE "attach"
     IN  /\ points' = pts
         /\ visited' = MarkVisited(visited, currentY * imageData.width + currentX)
         /\ IF found = {}
            THEN /\ pc' = after
                 /\ UNCHANGED <<currentX, currentY, direction>>
            ELSE LET checkDir == (direction + Min(found)) % 8
                     nextX == currentX + directions[checkDir + 1][1]
                     nextY == currentY + directions[checkDir + 1][2]
                 IN  /\ currentX' = nextX
                     /\ currentY' = nextY
                     /\ direction' = TurnLeft(checkDir)
                     /\ pc' = IF KeepTracing(nextX, nextY, startX, startY, pts)
                              THEN pc ELSE after
  /\ UNCHANGED <<imageData, x, y, contours, startX, startY, otherVars>>

\* back in extractContours: a viable contour is pushed, the scan goes on
ContourPush ==
  /\ pc = "push"
  /\ contours' = IF IsViable(points)
                 THEN Append(contours, [points |-> points, holes |-> <<>>,
                                        isHole |-> FALSE, parent |-> -1])
                 ELSE contours
  /\ ScanAdvance
  /\ pc' = "scan"
  /\ UNCHANGED <<imageData, visited, traceLocals, otherVars>>

\* the exterior scan is over: findHoles starts with a fresh visited array
FindHoles ==
  /\ pc = "scan" /\ y >= imageData.height
  /\ pc' = "holescan"
  /\ visited' = {}
  /\ x' = 1 /\ y' = 1
  /\ UNCHANGED <<imageData, contours, traceLocals, otherVars>>

\* x++ of the hole scan over 1..width-2, y++ at the end of a row
HoleAdvance ==
  IF x + 1 < imageData.width - 1
  THEN x' = x + 1 /\ y' = y
  ELSE x' = 1 /\ y' = y + 1

HoleScanning == pc = "holescan" /\ y < imageData.height - 1 /\ x < imageData.width - 1

HoleCandidate ==
  /\ (y * imageData.width + x) \notin visited
  /\ Pixel(imageData, x, y) = BG
  /\ isHoleStart(imageData, x, y)

\* one pixel of findHoles' scan that starts no trace
HoleSkip ==
  /\ HoleScanning
  /\ ~HoleCandidate
  /\ HoleAdvance
  /\ UNCHANGED <<imageData, pc, visited, contours, traceLocals, otherVars>>

\* an unvisited white pixel with at least 6 black neighbours: traceContour
HoleStart ==
  /\ HoleScanning
  /\ HoleCandidate
  /\ EnterTrace(x, y)
  /\ pc' = "holetrace"
  /\ UNCHANGED <<imageData, x, y, visited, contours, otherVars>>

\* back in findHoles: a viable hole goes to the first contour that contains
\* its first point
HoleAttach ==
  /\ pc = "attach"
  /\ LET parentIndex == findContainingContour(contours, points[1])
     IN  contours' =
           IF IsViable(points) /\ parentIndex > 0
           THEN [contours EXCEPT ![parentIndex].holes = Append(@, points)]
           ELSE contours
  /\ HoleAdvance
  /\ pc' = "holescan"
  /\ UNCHANGED <<imageData, visited, traceLocals, otherVars>>

HoleDone == pc = "holescan" /\ ~(y < imageData.height - 1 /\ x < imageData.width - 1)

\* findHoles and extractContours return
Return ==
  /\ HoleDone
  /\ pc' = "done"
  /\ UNCHANGED <<imageData, x, y, visited, contours, traceLocals, otherVars>>

ContourNext ==
  \/ ScanSkip \/ ScanStart \/ TraceStep \/ ContourPush \/ FindHoles
  \/ HoleSkip \/ HoleStart \/ HoleAttach \/ Return

Spec == ContourInit /\ [][ContourNext]_vars

\* the extractor is sequential code: a step that can be taken is taken
FairSpec == Spec /\ WF_vars(ContourNext)

\* every trace that ends was recorded point for point
TraceFullyRecorded == pc \in {"push", "attach"} => Len(points) < MaxPoints

---------------------------------------------------------------------------
(* Foreground blobs: the maximal 8-connected sets of foreground pixels *)

FgSet(img) == { i \in DOMAIN img.data : img.data[i] = FG }

Abs(n) == IF n < 0 THEN -n ELSE n

Touch(img, a, b) ==
  /\ Abs((a % img.width) - (b % img.width)) <= 1
  /\ Abs((a \div img.width) - (b \div img.width)) <= 1

RECURSIVE Grow(_, _, _)
Grow(img, S, fg) ==
  LET T == S \cup { b \in fg : \E a \in S : Touch(img, a, b) }
  IN  IF T = S THEN S ELSE Grow(img, T, fg)

Blobs(img) == { Grow(img, {a}, FgSet(img)) : a \in FgSet(img) }

\* the foreground is one solid rectangle of at least 2x2 pixels that touches
\* no border of the bitmap
IsSolidRect(img) ==
  \E x0 \in 1..img.width, y0 \in 1..img.height :
    \E x1 \in (x0 + 1)..(img.width - 2), y1 \in (y0 + 1)..(img.height - 2) :
      FgSet(img) = { yy * img.width + xx : xx \in x0..x1, yy \in y0..y1 }

---------------------------------------------------------------------------
(* Claims about extractContours *)

\* C1: extractContours terminates on every binary bitmap: every trace it
\* starts, from the exterior scan or from the hole scan, ends, so the
\* extractor returns.
C1_Terminates == <>(pc = "done")

\* C3: on the 7x7 bitmap with a 5x5 square and one background pixel at its
\* centre, extractContours returns exactly one contour, with exactly one
\* hole ring of at least 3 points.
C3_RingWithHole ==
  (imageData = Ring7) =>
    <>( /\ pc = "done"
        /\ Len(contours) = 1
        /\ Len(contours[1].holes) = 1
        /\ Len(contours[1].holes[1]) >= 3 )

\* C4: on a bitmap whose only foreground is one solid rectangle of at least
\* 2x2 pixels surrounded by background, extractContours returns exactly one
\* contour, with at least 4 exterior points and no hole.
C4_SolidRectangle ==
  IsSolidRect(imageData) =>
    <>( /\ pc = "done"
        /\ Len(contours) = 1
        /\ Len(contours[1].points) >= 4
        /\ contours[1].holes = <<>> )

\* the 3x3 square centred in the 5x5 bitmap was extracted as one contour
\* of its 8 boundary pixels
C4_Witness ==
  /\ pc = "done"
  /\ imageData = RectImage(5, 5, 1, 1, 3, 3)
  /\ Len(contours) = 1
  /\ Len(contours[1].points) = 8

C6_MoreThanThreePoints ==
  \A i \in 1..Len(contours) :
    /\ Len(contours[i].points) > 3
    /\ \A j \in 1..Len(contours[i].holes) : Len(contours[i].holes[j]) > 3

\* a trace that ended with 3 points was dropped while another is kept
C6_Witness ==
  /\ pc = "scan"
  /\ Len(points) = 3
  /\ contours # <<>>
  /\ \A i \in 1..Len(contours) : contours[i].points # points

---------------------------------------------------------------------------
(* geometry.ts: rings and polygons                                         *)
(*                                                                         *)
(* A coordinate is a whole number of units of 0.00025, so that the grid    *)
(* and the tolerances of 0.001 are 4 units and a coordinate can lie        *)
(* between two grid lines.  An area is a whole number of half unit         *)
(* squares: calculateSignedArea's area / 2 is the sum itself, counted in   *)
(* halves.                                                                 *)

\* the extractor is not run
ContourIdle ==
  /\ imageData = Image(1, 1, {})
  /\ pc = "idle"
  /\ x = 0 /\ y = 0
  /\ visited = {}
  /\ contours = <<>>
  /\ startX = NoPoint /\ startY = NoPoint
  /\ currentX = NoPoint /\ currentY = NoPoint
  /\ direction = 0
  /\ points = <<>>

\* rings of up to MaxRingLen points
MaxRingLen == 4
\* polygon lists of up to MaxPolygons polygons
MaxPolygons == 2

\* 0.001, the tolerance of ensureClosedRing and of removeDuplicatePoints
tolerance == 4
\* 0.001, the grid cleanupGeometry snaps to
gridSize == 4

Pt(px, py) == [x |-> px, y |-> py]

Rings(S) == UNION { [1..n -> S] : n \in 0..MaxRingLen }

PolygonLists(S) == UNION { [1..n -> S] : n \in 0..MaxPolygons }

Reverse(ps) == [i \in 1..Len(ps) |-> ps[Len(ps) + 1 - i]]

\* mutant of AlreadyClosed: the ring is never taken as closed
AlreadyClosedNever(ps) == FALSE

\* already closed (within tolerance)
AlreadyClosed(ps) ==
  LET first == ps[1]
      last == ps[Len(ps)]
  IN  Abs(first.x - last.x) < tolerance /\ Abs(first.y - last.y) < tolerance

ensureClosedRing(ps) ==
  IF Len(ps) < 3 THEN ps
  ELSE IF AlreadyClosed(ps) THEN ps
  ELSE Append(ps, Pt(ps[1].x, ps[1].y))

\* the loop of removeDuplicatePoints from index i on; distance >= tolerance
\* is compared on the squares
RECURSIVE CollapseFrom(_, _, _, _)
CollapseFrom(ps, i, kept, tol) ==
  IF i > Len(ps) THEN kept
  ELSE LET current == ps[i]
           previous == kept[Len(kept)]
           dx == current.x - previous.x
           dy == current.y - previous.y
       IN  CollapseFrom(ps, i + 1,
                        IF dx * dx + dy * dy >= tol * tol
                          THEN Append(kept, current) ELSE kept,
                        tol)

\* a collapse that drops nothing
removeDuplicatePointsNot(ps, tol) == ps

removeDuplicatePoints(ps, tol) ==
  IF Len(ps) <= 1 THEN ps ELSE CollapseFrom(ps, 2, <<ps[1]>>, tol)

\* the sum of calculateSignedArea over the first n edges
RECURSIVE EdgeSum(_, _)
EdgeSum(ps, n) ==
  IF n = 0 THEN 0
  ELSE EdgeSum(ps, n - 1) + (ps[n + 1].x - ps[n].x) * (ps[n + 1].y + ps[n].y)

calculateSignedArea(ps) ==
  IF Len(ps) < 3 THEN 0 ELSE EdgeSum(ps, Len(ps) - 1)

calculatePolygonArea(ps) == Abs(calculateSignedArea(ps))

ensureCounterClockwise(ps) ==
  IF Len(ps) < 3 THEN ps
  ELSE IF calculateSignedArea(ps) > 0 THEN Reverse(ps) ELSE ps

ensureClockwise(ps) ==
  IF Len(ps) < 3 THEN ps
  ELSE IF calculateSignedArea(ps) < 0 THEN Reverse(ps) ELSE ps

---------------------------------------------------------------------------
(* ensureClosedRing applied to a ring, then to its own result *)

RingPoints == { Pt(px, py) : px \in {0, 3, 8}, py \in {0, 3} }

RingInit ==
  /\ ContourIdle
  /\ MoreIdle
  /\ closings \in { <<r>> : r \in Rings(RingPoints) }
  /\ gpc = "ring"
  /\ polygons = <<>> /\ vi = 0 /\ validPolygons = <<>> /\ emitted = <<>>
  /\ repairs = <<>> /\ minArea = 0 /\ cleaned = <<>>

CloseRing ==
  /\ gpc = "ring"
  /\ Len(closings) < 3
  /\ closings' = Append(closings, ensureClosedRing(closings[Len(closings)]))
  /\ UNCHANGED <<contourVars, polygons, gpc, vi, validPolygons, emitted, repairs,
                 minArea, cleaned, moreVars>>

RingSpec == RingInit /\ [][CloseRing]_vars

\* C10: ring closure is idempotent: closing the result of ensureClosedRing
\* again gives that result, and a ring whose first and last points are the
\* same point comes back with the same points and the same length.
C10_ClosureIdempotent ==
  /\ Len(closings) >= 3 => closings[3] = closings[2]
  /\ (/\ Len(closings) >= 2
      /\ closings[1] # <<>>
      /\ closings[1][1] = closings[1][Len(closings[1])])
     => closings[2] = closings[1]

\* a ring of 3 points that is open was closed by one more point, and closed
\* a second time
C10_Witness ==
  /\ Len(closings) = 3
  /\ Len(closings[1]) = 3
  /\ Len(closings[2]) = 4
  /\ closings[2][4] = closings[1][1]

---------------------------------------------------------------------------
(* geometry.ts: validateGeometry                                           *)
(*                                                                         *)
(* A polygon handed in is [exterior, holes, holesUndefined]: an object     *)
(* without a holes array is what makes the loop body throw.  A polygon     *)
(* handed out is [exterior, holes].  martinez.union is a library: it       *)
(* throws, or returns a list of polygons, each a list of rings of [x, y]   *)
(* pairs.                                                                  *)

Poly(e, hs) == [exterior |-> e, holes |-> hs, holesUndefined |-> FALSE]

Malformed(e) == [exterior |-> e, holes |-> <<>>, holesUndefined |-> TRUE]

\* p => [p.x, p.y]
ToCoords(ps) == [i \in 1..Len(ps) |-> <<ps[i].x, ps[i].y>>]

\* ([x, y]) => ({ x, y })
FromCoords(cs) == [i \in 1..Len(cs) |-> Pt(cs[i][1], cs[i][2])]

\* a second polygon in the library's result
SecondPiece == << ToCoords(<<Pt(0, 0), Pt(8, 8), Pt(8, 0), Pt(0, 0)>>) >>

\* what martinez.union([martinezPolygon], []) can do
UnionResults(martinezPolygon) ==
  { [kind |-> "throws", value |-> <<>>],
    [kind |-> "returns", value |-> <<>>],
    [kind |-> "returns", value |-> << <<>> >>],
    [kind |-> "returns", value |-> <<martinezPolygon>>],
    [kind |-> "returns", value |-> <<martinezPolygon, SecondPiece>>] }

\* the library was not called for this polygon
NotCalled == [kind |-> "none", value |-> <<>>]

\* a repair that hands back its input whatever the library did
fixSelfIntersectionsNot(polygon, fixed) == <<polygon>>

\* the first polygon of the library's result, the polygon when the library
\* throws; <<>> stands for null
fixSelfIntersections(polygon, fixed) ==
  IF fixed.kind = "throws" THEN <<polygon>>
  ELSE IF Len(fixed.value) = 0 THEN <<>>
  ELSE LET firstPolygon == fixed.value[1]
       IN  IF Len(firstPolygon) = 0 THEN <<>>
           ELSE << [exterior |-> FromCoords(firstPolygon[1]),
                    holes |-> [h \in 1..(Len(firstPolygon) - 1) |->
                                 FromCoords(firstPolygon[h + 1])]] >>

\* mutant of Caught: the error leaves validateGeometry
Rethrown == "thrown"

\* the catch clause: warn, and go on with the next polygon
Caught == "validate"

closedExterior(polygon) == ensureClosedRing(polygon.exterior)

cleanExterior(polygon) == removeDuplicatePoints(closedExterior(polygon), tolerance)

cleanHoles(polygon) ==
  [h \in 1..Len(polygon.holes) |->
     removeDuplicatePoints(ensureClosedRing(polygon.holes[h]), tolerance)]

HasThreePoints(ps) == Len(ps) >= 3

orientedHoles(polygon) ==
  LET kept == SelectSeq(cleanHoles(polygon), HasThreePoints)
  IN  [h \in 1..Len(kept) |-> ensureClockwise(kept[h])]

\* the polygon handed to fixSelfIntersections
Oriented(polygon) ==
  [exterior |-> ensureCounterClockwise(cleanExterior(polygon)),
   holes |-> orientedHoles(polygon)]

MartinezPolygon(polygon) ==
  <<ToCoords(polygon.exterior)>> \o
  [h \in 1..Len(polygon.holes) |-> ToCoords(polygon.holes[h])]

ValidatePoints == { Pt(0, 0), Pt(3, 0), Pt(8, 0), Pt(8, 8) }

Triangle == <<Pt(0, 0), Pt(8, 0), Pt(8, 8), Pt(0, 0)>>

Square == <<Pt(0, 0), Pt(16, 0), Pt(16, 16), Pt(0, 16), Pt(0, 0)>>

HoleRings ==
  { <<Pt(4, 4), Pt(8, 4), Pt(8, 8), Pt(4, 4)>>,
    <<Pt(4, 4), Pt(8, 8), Pt(8, 4)>>,
    <<Pt(4, 4), Pt(8, 8)>>,
    <<Pt(4, 4), Pt(5, 5), Pt(4, 8), Pt(4, 5)>>,
    <<Pt(4, 4), Pt(8, 4), Pt(12, 4)>> }

\* every ring of up to MaxRingLen points as the exterior of a polygon
ValidateSingles == { Poly(e, <<>>) : e \in Rings(ValidatePoints) }

\* the polygons the lists of several polygons are made of
ValidateSamples ==
  { Poly(Square, <<>>), Poly(Reverse(Square), <<>>),
    Poly(<<Pt(0, 0), Pt(8, 8)>>, <<>>),
    Poly(<<Pt(0, 0), Pt(3, 0), Pt(0, 3)>>, <<>>),
    Malformed(Triangle), Malformed(<<>>) }
  \cup { Poly(Square, <<h>>) : h \in HoleRings }
  \cup { Poly(Square, <<h, Reverse(Triangle)>>) : h \in HoleRings }

ValidateInputs ==
  { <<p>> : p \in ValidateSingles } \cup PolygonLists(ValidateSamples)

ValidateInit ==
  /\ ContourIdle
  /\ MoreIdle
  /\ polygons \in ValidateInputs
  /\ gpc = "validate"
  /\ vi = 1
  /\ validPolygons = <<>>
  /\ emitted = <<>>
  /\ repairs = <<>>
  /\ minArea = 0 /\ cleaned = <<>> /\ closings = <<>>

\* the for loop is at polygon vi
ValidateLooping == gpc = "validate" /\ vi <= Len(polygons)

notValidated == <<contourVars, polygons, minArea, cleaned, closings, moreVars>>

\* if (polygon.exterior.length < 3) continue
SkipDegenerate ==
  /\ ValidateLooping
  /\ Len(polygons[vi].exterior) < 3
  /\ vi' = vi + 1
  /\ repairs' = Append(repairs, NotCalled)
  /\ UNCHANGED <<gpc, validPolygons, emitted, notValidated>>

\* polygon.holes.map throws, the catch clause takes over
ValidateCatch ==
  /\ ValidateLooping
  /\ Len(polygons[vi].exterior) >= 3
  /\ polygons[vi].holesUndefined
  /\ gpc' = Caught
  /\ vi' = vi + 1
  /\ repairs' = Append(repairs, NotCalled)
  /\ UNCHANGED <<validPolygons, emitted, notValidated>>

\* if (cleanExterior.length < 3) continue
SkipCollapsed ==
  /\ ValidateLooping
  /\ Len(polygons[vi].exterior) >= 3
  /\ ~polygons[vi].holesUndefined
  /\ Len(cleanExterior(polygons[vi])) < 3
  /\ vi' = vi + 1
  /\ repairs' = Append(repairs, NotCalled)
  /\ UNCHANGED <<gpc, validPolygons, emitted, notValidated>>

\* orient, repair, push the repaired polygon unless it is null
ValidateRepair ==
  /\ ValidateLooping
  /\ Len(polygons[vi].exterior) >= 3
  /\ ~polygons[vi].holesUndefined
  /\ Len(cleanExterior(polygons[vi])) >= 3
  /\ \E fixed \in UnionResults(MartinezPolygon(Oriented(polygons[vi]))) :
       LET fixedPolygon == fixSelfIntersections(Oriented(polygons[vi]), fixed)
       IN  /\ validPolygons' = validPolygons \o fixedPolygon
           /\ emitted' = IF fixedPolygon # <<>> THEN Append(emitted, vi) ELSE emitted
           /\ repairs' = Append(repairs, fixed)
  /\ vi' = vi + 1
  /\ UNCHANGED <<gpc, notValidated>>

ValidateReturn ==
  /\ gpc = "validate"
  /\ vi > Len(polygons)
  /\ gpc' = "done"
  /\ UNCHANGED <<vi, validPolygons, emitted, repairs, notValidated>>

ValidateNext ==
  \/ SkipDegenerate
  \/ ValidateCatch
  \/ SkipCollapsed
  \/ ValidateRepair
  \/ ValidateReturn

ValidateSpec == ValidateInit /\ [][ValidateNext]_vars

---------------------------------------------------------------------------
(* Claims about validateGeometry *)

Range(f) == { f[i] : i \in DOMAIN f }

\* C2: each polygon validateGeometry returns has an exterior ring of signed
\* area < 0 and only hole rings of signed area > 0.
C2_WindingOfOutput ==
  \A k \in 1..Len(validPolygons) :
    /\ calculateSignedArea(validPolygons[k].exterior) < 0
    /\ \A h \in 1..Len(validPolygons[k].holes) :
         calculateSignedArea(validPolygons[k].holes[h]) > 0

\* the library's result for polygon i leaves a polygon to push
RepairKeeps(i) ==
  \/ repairs[i].kind = "throws"
  \/ /\ repairs[i].kind = "returns"
     /\ repairs[i].value # <<>>
     /\ repairs[i].value[1] # <<>>

\* C9: validateGeometry never throws and treats each polygon on its own: a
\* polygon whose exterior has fewer than 3 points, as given or once closed
\* and collapsed, is not in the output; a polygon whose processing fails is
\* not in the output and every other polygon is treated as if it were
\* alone; the polygons of the output are in the order of the input.
C9_EachPolygonOnItsOwn ==
  /\ gpc # "thrown"
  /\ Len(emitted) = Len(validPolygons)
  /\ \A k \in 1..(Len(emitted) - 1) : emitted[k] < emitted[k + 1]
  /\ Len(repairs) = vi - 1
  /\ \A i \in 1..(vi - 1) :
       LET p == polygons[i]
           short == \/ Len(p.exterior) < 3
                    \/ Len(removeDuplicatePoints(ensureClosedRing(p.exterior),
                                                 tolerance)) < 3
       IN  /\ short => i \notin Range(emitted)
           /\ p.holesUndefined => i \notin Range(emitted)
           /\ (~short /\ ~p.holesUndefined /\ RepairKeeps(i))
                => i \in Range(emitted)

\* of two polygons the first failed and the second is
\* in the output
C9_Witness ==
  /\ gpc = "done"
  /\ Len(polygons) = 2
  /\ polygons[1].holesUndefined
  /\ Len(polygons[1].exterior) >= 3
  /\ emitted = <<2>>

---------------------------------------------------------------------------
(* geometry.ts: cleanupGeometry                                            *)
(*                                                                         *)
(* A polygon is [exterior, holes].  minArea is counted in half unit        *)
(* squares like the areas; area >= minArea * 0.1 is compared as            *)
(* 10 * area >= minArea.                                                   *)

\* mutant of MeetsThreshold: the threshold itself is too small
ExceedsThreshold(area, threshold) == area > threshold

\* area >= threshold
MeetsThreshold(area, threshold) == area >= threshold

\* mutant of RoundToGrid: Math.trunc in the place of Math.round
TruncateToGrid(v, g) == IF v >= 0 THEN (v \div g) * g ELSE -(((-v) \div g) * g)

\* Math.round(v / g) * g; Math.round takes a half to the next whole number up
RoundToGrid(v, g) == ((2 * v + g) \div (2 * g)) * g

snapToGrid(ps, g) ==
  [i \in 1..Len(ps) |-> Pt(RoundToGrid(ps[i].x, g), RoundToGrid(ps[i].y, g))]

IsLargePolygon(polygon, minA) ==
  MeetsThreshold(calculatePolygonArea(polygon.exterior), minA)

IsLargeHole(hole, minA) == MeetsThreshold(10 * calculatePolygonArea(hole), minA)

\* the map of cleanupGeometry for one polygon
SnapPolygon(polygon, minA) ==
  LET large == SelectSeq(polygon.holes, LAMBDA hole : IsLargeHole(hole, minA))
  IN  [exterior |-> snapToGrid(polygon.exterior, gridSize),
       holes |-> [h \in 1..Len(large) |-> snapToGrid(large[h], gridSize)]]

cleanupGeometry(ps, minA) ==
  LET large == SelectSeq(ps, LAMBDA polygon : IsLargePolygon(polygon, minA))
      snapped == [i \in 1..Len(large) |-> SnapPolygon(large[i], minA)]
  IN  SelectSeq(snapped, LAMBDA polygon : Len(polygon.exterior) >= 3)

CleanupPoints == { Pt(0, 0), Pt(9, 1), Pt(10, 10), Pt(-3, 6) }

Plain(e, hs) == [exterior |-> e, holes |-> hs]

\* a square of side s at (ox, oy), closed
SquareAt(ox, oy, s) ==
  <<Pt(ox, oy), Pt(ox + s, oy), Pt(ox + s, oy + s), Pt(ox, oy + s), Pt(ox, oy)>>

\* every ring of up to MaxRingLen points as the exterior of a polygon
CleanupSingles == { Plain(e, <<>>) : e \in Rings(CleanupPoints) }

\* the polygons the lists of several polygons are made of
CleanupSamples ==
  { Plain(SquareAt(0, 0, 16), <<>>),
    Plain(<<Pt(1, 2), Pt(15, 1), Pt(17, 14), Pt(2, 17), Pt(1, 2)>>, <<>>),
    Plain(<<Pt(0, 0), Pt(9, 1), Pt(10, 10), Pt(0, 0)>>, <<>>),
    Plain(<<Pt(1, 1), Pt(9, 9)>>, <<>>),
    Plain(<<>>, <<SquareAt(1, 1, 4)>>),
    Plain(SquareAt(0, 0, 16), <<SquareAt(1, 1, 4), SquareAt(10, 10, 2)>>),
    Plain(SquareAt(0, 0, 16), <<SquareAt(10, 10, 2), Reverse(SquareAt(1, 1, 4))>>),
    Plain(SquareAt(-2, -2, 16), <<<<Pt(1, 1), Pt(6, 7)>>, SquareAt(3, 3, 4)>>) }

CleanupInputs ==
  { <<p>> : p \in CleanupSingles } \cup PolygonLists(CleanupSamples)

\* thresholds: none, the area of the small hole times 10, of the large hole
\* times 10, of the square, and one above every area
MinAreas == {0, 80, 320, 512, 600}

CleanupInit ==
  /\ ContourIdle
  /\ MoreIdle
  /\ polygons \in CleanupInputs
  /\ minArea \in MinAreas
  /\ gpc = "cleanup"
  /\ cleaned = <<>>
  /\ vi = 0 /\ validPolygons = <<>> /\ emitted = <<>> /\ repairs = <<>>
  /\ closings = <<>>

Cleanup ==
  /\ gpc = "cleanup"
  /\ cleaned' = cleanupGeometry(polygons, minArea)
  /\ gpc' = "done"
  /\ UNCHANGED <<contourVars, polygons, minArea, vi, validPolygons, emitted,
                 repairs, closings, moreVars>>

CleanupSpec == CleanupInit /\ [][Cleanup]_vars

---------------------------------------------------------------------------
(* Claims about cleanupGeometry *)

\* the place of i among the indices K, in increasing order
Rank(K, i) == Cardinality({ j \in K : j <= i })

\* the indices of the rings of rs whose area, times factor, is at least minArea
AreaAtLeast(rs, factor) ==
  { i \in 1..Len(rs) : factor * calculatePolygonArea(rs[i]) >= minArea }

\* out is the ring in up to the snapping: as many points, each less than a
\* grid step from its own
SameRing(out, in) ==
  /\ Len(out) = Len(in)
  /\ \A n \in 1..Len(in) :
       /\ Abs(out[n].x - in[n].x) < gridSize
       /\ Abs(out[n].y - in[n].y) < gridSize

\* cleaned is, in order, the polygons of the indices K, each with, in order,
\* its holes of area >= 0.1 * minArea
RetainsExactly(K) ==
  /\ Len(cleaned) = Cardinality(K)
  /\ \A i \in K :
       LET out == cleaned[Rank(K, i)]
           H == AreaAtLeast(polygons[i].holes, 10)
       IN  /\ SameRing(out.exterior, polygons[i].exterior)
           /\ Len(out.holes) = Cardinality(H)
           /\ \A h \in H : SameRing(out.holes[Rank(H, h)], polygons[i].holes[h])

ExteriorsOf(ps) == [i \in 1..Len(ps) |-> ps[i].exterior]

\* C7 as stated: cleanupGeometry returns, in order, exactly the polygons
\* whose exterior has an unsigned area >= minArea, each with, in order,
\* exactly its holes of unsigned area >= 0.1 * minArea.
C7_RetainsByArea ==
  gpc = "done" => RetainsExactly(AreaAtLeast(ExteriorsOf(polygons), 1))

\* C7 as amended: cleanupGeometry returns, in order, exactly the polygons
\* whose exterior has at least 3 points and an unsigned area >= minArea,
\* each with, in order, exactly its holes of unsigned area >= 0.1 * minArea.
C7_RetainsByAreaAndLength ==
  gpc = "done" =>
    RetainsExactly({ i \in AreaAtLeast(ExteriorsOf(polygons), 1) :
                       Len(polygons[i].exterior) >= 3 })

\* of two polygons the first is too small and the second is retained with
\* one of its two holes
C7_Witness ==
  /\ gpc = "done"
  /\ Len(polygons) = 2
  /\ calculatePolygonArea(polygons[1].exterior) < minArea
  /\ Len(polygons[2].holes) = 2
  /\ Len(cleaned) = 1
  /\ Len(cleaned[1].holes) = 1

\* out is the ring in with every coordinate on the grid line nearest to it
Snapped(out, in) ==
  /\ Len(out) = Len(in)
  /\ \A n \in 1..Len(in) :
       /\ out[n].x % gridSize = 0
       /\ out[n].y % gridSize = 0
       /\ 2 * Abs(out[n].x - in[n].x) <= gridSize
       /\ 2 * Abs(out[n].y - in[n].y) <= gridSize

\* C8: every coordinate of every ring cleanupGeometry returns is the
\* coordinate of the input at the same place, rounded to the nearest
\* multiple of 0.001: a multiple of the grid step at most half a step away;
\* each retained ring keeps its number of points and their order.
C8_SnappedToNearest ==
  gpc = "done" =>
    LET K == { i \in 1..Len(polygons) :
                 /\ IsLargePolygon(polygons[i], minArea)
                 /\ Len(polygons[i].exterior) >= 3 }
    IN  /\ Len(cleaned) = Cardinality(K)
        /\ \A i \in K :
             LET out == cleaned[Rank(K, i)]
                 H == { h \in 1..Len(polygons[i].holes) :
                          IsLargeHole(polygons[i].holes[h], minArea) }
             IN  /\ Snapped(out.exterior, polygons[i].exterior)
                 /\ Len(out.holes) = Cardinality(H)
                 /\ \A h \in H :
                      Snapped(out.holes[Rank(H, h)], polygons[i].holes[h])

\* a coordinate was rounded up to the next grid line and another one down
C8_Witness ==
  /\ gpc = "done"
  /\ Len(polygons) = 1
  /\ Len(cleaned) = 1
  /\ \E n \in 1..Len(cleaned[1].exterior) :
       cleaned[1].exterior[n].x > polygons[1].exterior[n].x
  /\ \E n \in 1..Len(cleaned[1].exterior) :
       cleaned[1].exterior[n].x < polygons[1].exterior[n].x

---------------------------------------------------------------------------
(* dxf.ts: generateDXF and generateMinimalDXF                              *)
(*                                                                         *)
(* The result is the sequence of its lines, before join('\n').  A          *)
(* coordinate is written as the number of its millionths: "3000" stands    *)
(* for 0.003.                                                              *)

generateDXFHeader ==
  <<"0", "SECTION", "2", "HEADER",
    "9", "$ACADVER", "1", "AC1015",
    "9", "$HANDSEED", "5", "FFFF",
    "9", "$MEASUREMENT", "70", "1",
    "0", "ENDSEC">>

generateDXFTables ==
  <<"0", "SECTION", "2", "TABLES",
    "0", "TABLE", "2", "LAYER", "5", "2", "330", "0",
    "100", "AcDbSymbolTable", "70", "2",
    "0", "LAYER", "5", "10", "330", "2",
    "100", "AcDbSymbolTableRecord", "100", "AcDbLayerTableRecord",
    "2", "VW_CLASS_Detail", "70", "0", "62", "7", "6", "CONTINUOUS", "370", "25",
    "0", "LAYER", "5", "11", "330", "2",
    "100", "AcDbSymbolTableRecord", "100", "AcDbLayerTableRecord",
    "2", "VW_CLASS_Fill", "70", "0", "62", "1", "6", "CONTINUOUS", "370", "0",
    "0", "ENDTAB",
    "0", "ENDSEC">>

generateDXFFooter ==
  <<"0", "SECTION", "2", "OBJECTS",
    "0", "DICTIONARY", "5", "C", "330", "0", "100", "AcDbDictionary",
    "281", "1", "3", "ACAD_GROUP", "350", "D",
    "0", "DICTIONARY", "5", "D", "330", "C", "100", "AcDbDictionary",
    "281", "1",
    "0", "ENDSEC",
    "0", "EOF">>

\* value.toFixed(6): the nearest number of millionths, a half away from
\* zero; Number(...).toString(): no sign for zero.  A unit is 250 millionths.
formatDXFCoordinate(value) ==
  LET n == (2500 * Abs(value) + 5) \div 10
  IN  IF value < 0 /\ n # 0 THEN "-" \o ToString(n) ELSE ToString(n)

HexDigits == <<"0", "1", "2", "3", "4", "5", "6", "7", "8", "9",
               "A", "B", "C", "D", "E", "F">>

\* n.toString(16).toUpperCase()
RECURSIVE Hex(_)
Hex(n) == IF n < 16 THEN HexDigits[n + 1]
          ELSE Hex(n \div 16) \o HexDigits[(n % 16) + 1]

\* the 10/20 pairs of the points from the i-th on
RECURSIVE VertexLines(_, _)
VertexLines(ps, i) ==
  IF i > Len(ps) THEN <<>>
  ELSE <<"10", formatDXFCoordinate(ps[i].x), "20", formatDXFCoordinate(ps[i].y)>>
       \o VertexLines(ps, i + 1)

\* mutant of ClosedFlag: the polyline is left open
OpenFlag == "0"

\* '1', the closed polyline flag
ClosedFlag == "1"

generateLWPolyline(ps, layer, handle) ==
  IF Len(ps) < 3 THEN <<>>
  ELSE <<"0", "LWPOLYLINE", "5", handle, "330", "1F", "100", "AcDbEntity",
         "8", layer, "100", "AcDbPolyline",
         "90", ToString(Len(ps)), "70", ClosedFlag>>
       \o VertexLines(ps, 1)

generateBoundaryPath(ps, pathFlag) ==
  IF Len(ps) < 3 THEN <<>>
  ELSE <<"92", ToString(pathFlag), "93", "1", "72", "1", "94", ToString(Len(ps))>>
       \o VertexLines(ps, 1)
       \o <<"97", "0">>

\* the boundary paths of the holes from the h-th on
RECURSIVE HolePaths(_, _)
HolePaths(holes, h) ==
  IF h > Len(holes) THEN <<>>
  ELSE generateBoundaryPath(holes[h], 16) \o HolePaths(holes, h + 1)

generateHatchEntity(polygon, layer, handle) ==
  <<"0", "HATCH", "5", handle, "330", "1F", "100", "AcDbEntity",
    "8", layer, "62", "7", "100", "AcDbHatch",
    "10", "0.0", "20", "0.0", "30", "0.0",
    "210", "0.0", "220", "0.0", "230", "1.0",
    "2", "SOLID", "70", "1", "71", "0",
    "91", ToString(1 + Len(polygon.holes))>>
  \o generateBoundaryPath(polygon.exterior, 2)
  \o HolePaths(polygon.holes, 1)
  \o <<"75", "1", "76", "1", "98", "1", "10", "0.0", "20", "0.0">>

\* the polylines of the holes from the h-th on, the first with handle
\* handleCounter
RECURSIVE HolePolylines(_, _, _)
HolePolylines(holes, h, handleCounter) ==
  IF h > Len(holes) THEN <<>>
  ELSE generateLWPolyline(holes[h], "VW_CLASS_Detail", Hex(handleCounter))
       \o HolePolylines(holes, h + 1, handleCounter + 1)

\* mutant of HatchWanted: a hatch whatever the flag
HatchAlways(fill) == TRUE

\* if (whiteFill)
HatchWanted(fill) == fill

\* the body of the loop of generateDXFEntities from the i-th polygon on
RECURSIVE PolygonEntities(_, _, _, _)
PolygonEntities(ps, i, handleCounter, fill) ==
  IF i > Len(ps) THEN <<>>
  ELSE LET polygon == ps[i]
           n == Len(polygon.holes)
       IN  generateLWPolyline(polygon.exterior, "VW_CLASS_Detail", Hex(handleCounter))
           \o HolePolylines(polygon.holes, 1, handleCounter + 1)
           \o (IF HatchWanted(fill)
                 THEN generateHatchEntity(polygon, "VW_CLASS_Fill",
                                          Hex(handleCounter + 1 + n))
                 ELSE <<>>)
           \o PolygonEntities(ps, i + 1,
                              handleCounter + 1 + n
                                + (IF HatchWanted(fill) THEN 1 ELSE 0),
                              fill)

\* mutant of EntitiesEnd: the ENTITIES section is left open
EntitiesEndMissing == <<>>

\* entities.push('0', 'ENDSEC')
EntitiesEnd == <<"0", "ENDSEC">>

generateDXFEntities(ps, fill) ==
  <<"0", "SECTION", "2", "ENTITIES">>
  \o PolygonEntities(ps, 1, 100, fill)
  \o EntitiesEnd

generateDXF(ps, width, height, fill) ==
  generateDXFHeader \o generateDXFTables \o generateDXFEntities(ps, fill)
  \o generateDXFFooter

\* mutant of MinimalHoles: no polyline for a hole
MinimalHolesNone(holes, h) == <<>>

\* the polylines of generateMinimalDXF for the holes from the h-th on
RECURSIVE MinimalHoles(_, _)
MinimalHoles(holes, h) ==
  IF h > Len(holes) THEN <<>>
  ELSE (IF Len(holes[h]) >= 3
          THEN <<"0", "LWPOLYLINE", "8", "VW_CLASS_Detail",
                 "90", ToString(Len(holes[h])), "70", "1">>
               \o VertexLines(holes[h], 1)
          ELSE <<>>)
       \o MinimalHoles(holes, h + 1)

\* the body of the loop of generateMinimalDXF from the i-th polygon on
RECURSIVE MinimalEntities(_, _)
MinimalEntities(ps, i) ==
  IF i > Len(ps) THEN <<>>
  ELSE (IF Len(ps[i].exterior) >= 3
          THEN <<"0", "LWPOLYLINE", "8", "VW_CLASS_Detail",
                 "90", ToString(Len(ps[i].exterior)), "70", "1">>
               \o VertexLines(ps[i].exterior, 1)
          ELSE <<>>)
       \o MinimalHoles(ps[i].holes, 1)
       \o MinimalEntities(ps, i + 1)

generateMinimalDXF(ps, fill) ==
  <<"0", "SECTION", "2", "ENTITIES">>
  \o MinimalEntities(ps, 1)
  \o <<"0", "ENDSEC", "0", "EOF">>

\* the polygon lists handed to the writers: those handed to cleanupGeometry
DxfInputs == CleanupInputs

\* width and height of the image; the writers do not read them
DxfWidth == 16
DxfHeight == 16

DxfInit ==
  /\ ContourIdle
  /\ WindingIdle
  /\ ServerIdle
  /\ LateIdle
  /\ polygons \in DxfInputs
  /\ whiteFill \in BOOLEAN
  /\ gpc = "export"
  /\ dxf = <<>>
  /\ minimalDxf = <<>>
  /\ vi = 0 /\ validPolygons = <<>> /\ emitted = <<>> /\ repairs = <<>>
  /\ minArea = 0 /\ cleaned = <<>> /\ closings = <<>>

notExported == <<contourVars, polygons, gpc, vi, validPolygons, emitted, repairs,
                 minArea, cleaned, closings, whiteFill, winding, serverVars, lateVars>>

GenerateDXF ==
  /\ gpc = "export"
  /\ dxf = <<>>
  /\ dxf' = generateDXF(polygons, DxfWidth, DxfHeight, whiteFill)
  /\ UNCHANGED <<minimalDxf, notExported>>

GenerateMinimalDXF ==
  /\ gpc = "export"
  /\ minimalDxf = <<>>
  /\ minimalDxf' = generateMinimalDXF(polygons, whiteFill)
  /\ UNCHANGED <<dxf, notExported>>

DxfNext == GenerateDXF \/ GenerateMinimalDXF

DxfSpec == DxfInit /\ [][DxfNext]_vars

---------------------------------------------------------------------------
(* Claims about the DXF writers *)

IsMarker(line) == line \in {"SECTION", "ENDSEC", "EOF"}

\* the lines of ls that open or close a section or end the file
Markers(ls) == SelectSeq(ls, IsMarker)

\* the names of the sections of ls in the order they are opened: the line
\* two lines after each SECTION line
SectionNames(ls) ==
  LET at == { i \in 1..Len(ls) : ls[i] = "SECTION" }
  IN  [k \in 1..Cardinality(at) |->
         LET i == CHOOSE j \in at : Cardinality({ m \in at : m <= j }) = k
         IN  IF i + 2 <= Len(ls) THEN ls[i + 2] ELSE ""]

\* C11: in the output of generateDXF every SECTION is followed by its ENDSEC
\* before the next SECTION, there is exactly one EOF and it is the last
\* line, after the sections HEADER, TABLES, ENTITIES and OBJECTS in this
\* order, whatever the polygon list and the fill flag.
C11_BalancedSections ==
  dxf # <<>> =>
    /\ Markers(dxf) = <<"SECTION", "ENDSEC", "SECTION", "ENDSEC",
                        "SECTION", "ENDSEC", "SECTION", "ENDSEC", "EOF">>
    /\ dxf[Len(dxf)] = "EOF"
    /\ SectionNames(dxf) = <<"HEADER", "TABLES", "ENTITIES", "OBJECTS">>

\* generateDXF has written a list of two polygons, one of them with an
\* exterior of fewer than 3 points, with the fill
C11_Witness ==
  /\ dxf # <<>>
  /\ whiteFill
  /\ Len(polygons) = 2
  /\ Len(polygons[1].exterior) < 3
  /\ Len(polygons[2].exterior) >= 3

\* the lines two by two: a group code and its value
Pairs(ls) == [k \in 1..(Len(ls) \div 2) |-> <<ls[2 * k - 1], ls[2 * k]>>]

\* the pairs of the entity that starts at pair k: up to the next group code 0
EntityAt(pairs, k) ==
  LET later == { j \in (k + 1)..Len(pairs) : pairs[j][1] = "0" }
  IN  SubSeq(pairs, k, IF later = {} THEN Len(pairs) ELSE Min(later) - 1)

\* the entities of the given type in ls, in their order
EntitiesOfType(ls, type) ==
  LET pairs == Pairs(ls)
      at == { k \in 1..Len(pairs) : pairs[k] = <<"0", type>> }
  IN  [n \in 1..Cardinality(at) |->
         EntityAt(pairs, CHOOSE k \in at : Cardinality({ m \in at : m <= k }) = n)]

\* the values an entity gives for a group code, in their order
ValuesOf(entity, code) ==
  LET with == SelectSeq(entity, LAMBDA pair : pair[1] = code)
  IN  [n \in 1..Len(with) |-> with[n][2]]

\* what follows a group code 0 anywhere in ls
TypesIn(ls) == { Pairs(ls)[k][2] : k \in { j \in 1..(Len(ls) \div 2) : Pairs(ls)[j][1] = "0" } }

\* the rings of the polygons from the i-th on, exterior before holes
RECURSIVE RingsOf(_, _)
RingsOf(ps, i) ==
  IF i > Len(ps) THEN <<>>
  ELSE <<ps[i].exterior>> \o ps[i].holes \o RingsOf(ps, i + 1)

\* the rings that are drawn: those of 3 points or more
DrawnRings(ps) == SelectSeq(RingsOf(ps, 1), HasThreePoints)

\* the polyline is the ring: on the detail layer, closed, with the ring's
\* number of points and one 10/20 pair for each point
DrawsRing(polyline, r) ==
  /\ ValuesOf(polyline, "8") = <<"VW_CLASS_Detail">>
  /\ ValuesOf(polyline, "90") = <<ToString(Len(r))>>
  /\ ValuesOf(polyline, "70") = <<"1">>
  /\ ValuesOf(polyline, "10") = [n \in 1..Len(r) |-> formatDXFCoordinate(r[n].x)]
  /\ ValuesOf(polyline, "20") = [n \in 1..Len(r) |-> formatDXFCoordinate(r[n].y)]

\* C12: generateDXF writes one LWPOLYLINE for each ring (exterior, then its
\* holes, polygon after polygon) of 3 points or more and none for a shorter
\* ring; each is on layer VW_CLASS_Detail, with group 90 the number of
\* points of the ring, group 70 equal to 1 and one 10/20 pair for each
\* point; no LINE, SPLINE or POLYLINE is written.
C12_OnePolylinePerRing ==
  dxf # <<>> =>
    LET polylines == EntitiesOfType(dxf, "LWPOLYLINE")
        rings == DrawnRings(polygons)
    IN  /\ Len(polylines) = Len(rings)
        /\ \A k \in 1..Len(rings) : DrawsRing(polylines[k], rings[k])
        /\ TypesIn(dxf) \cap {"LINE", "SPLINE", "POLYLINE", "ARC", "CIRCLE"} = {}

\* generateDXF has written a polygon with two holes, one of them of fewer
\* than 3 points: two polylines
C12_Witness ==
  /\ dxf # <<>>
  /\ Len(polygons) = 1
  /\ Len(polygons[1].holes) = 2
  /\ Len(polygons[1].holes[1]) < 3
  /\ Len(EntitiesOfType(dxf, "LWPOLYLINE")) = 2

\* the 92 flags of the paths written for a polygon: the exterior's, then
\* the holes', a ring of fewer than 3 points having no path
PathFlags(polygon) ==
  (IF Len(polygon.exterior) >= 3 THEN <<"2">> ELSE <<>>)
  \o [h \in 1..Len(SelectSeq(polygon.holes, HasThreePoints)) |-> "16"]

\* C13: generateDXF writes no HATCH when whiteFill is false; when it is
\* true it writes one HATCH for each polygon, in their order, on layer
\* VW_CLASS_Fill with pattern SOLID, with group 91 equal to 1 + the number
\* of holes of the polygon, the exterior path flagged 92 = 2 and every hole
\* path flagged 92 = 16.
C13_OneHatchPerPolygon ==
  dxf # <<>> =>
    LET hatches == EntitiesOfType(dxf, "HATCH")
    IN  IF ~whiteFill THEN hatches = <<>>
        ELSE /\ Len(hatches) = Len(polygons)
             /\ \A i \in 1..Len(polygons) :
                  /\ ValuesOf(hatches[i], "8") = <<"VW_CLASS_Fill">>
                  /\ ValuesOf(hatches[i], "2") = <<"SOLID">>
                  /\ ValuesOf(hatches[i], "91")
                       = <<ToString(1 + Len(polygons[i].holes))>>
                  /\ ValuesOf(hatches[i], "92") = PathFlags(polygons[i])

\* generateDXF has written, with the fill, two polygons of which the
\* second has two holes: two hatches, the second of three paths
C13_Witness ==
  /\ dxf # <<>>
  /\ whiteFill
  /\ Len(polygons) = 2
  /\ Len(EntitiesOfType(dxf, "HATCH")) = 2
  /\ ValuesOf(EntitiesOfType(dxf, "HATCH")[2], "92") = <<"2", "16", "16">>

\* what the claims compare of a polyline: layer, vertex count, closed flag
\* and coordinates
PolylineRules(polyline) ==
  [layer |-> ValuesOf(polyline, "8"),
   count |-> ValuesOf(polyline, "90"),
   closed |-> ValuesOf(polyline, "70"),
   xs |-> ValuesOf(polyline, "10"),
   ys |-> ValuesOf(polyline, "20")]

\* C14: generateMinimalDXF writes no HEADER and no TABLES section, and what
\* it writes is part of what generateDXF writes for the same arguments: the
\* same LWPOLYLINE entities in the same order, with the same layer, vertex
\* count, closed flag and coordinates, and no other entity.
C14_MinimalIsSubset ==
  (dxf # <<>> /\ minimalDxf # <<>>) =>
    LET full == EntitiesOfType(dxf, "LWPOLYLINE")
        minimal == EntitiesOfType(minimalDxf, "LWPOLYLINE")
    IN  /\ SectionNames(minimalDxf) = <<"ENTITIES">>
        /\ TypesIn(minimalDxf) \subseteq {"SECTION", "LWPOLYLINE", "ENDSEC", "EOF"}
        /\ Len(minimal) = Len(full)
        /\ \A k \in 1..Len(full) : PolylineRules(minimal[k]) = PolylineRules(full[k])

\* both writers have written, with the fill, a polygon and its hole
C14_Witness ==
  /\ dxf # <<>>
  /\ minimalDxf # <<>>
  /\ whiteFill
  /\ Len(polygons) = 1
  /\ Len(polygons[1].holes) = 2
  /\ Len(EntitiesOfType(minimalDxf, "LWPOLYLINE")) = 3

\* the pairs of a hatch from the k-th on, up to the end of the boundary
\* path under way: the next group code 97
PathFrom(hatch, k) ==
  LET ends == { j \in k..Len(hatch) : hatch[j][1] = "97" }
  IN  SubSeq(hatch, k, IF ends = {} THEN Len(hatch) ELSE Min(ends))

\* C29: in every HATCH generateDXF writes, group 91 is the number of
\* boundary paths (group 92) written in the entity, and every path written
\* declares in group 94 the number of coordinate pairs that follow it.
C29_DeclaredCountsAreWritten ==
  dxf # <<>> =>
    LET hatches == EntitiesOfType(dxf, "HATCH")
    IN  \A i \in 1..Len(hatches) :
          /\ ValuesOf(hatches[i], "91") = <<ToString(Len(ValuesOf(hatches[i], "92")))>>
          /\ \A k \in 1..Len(hatches[i]) :
               hatches[i][k][1] = "94" =>
                 /\ hatches[i][k][2]
                      = ToString(Len(ValuesOf(PathFrom(hatches[i], k), "10")))
                 /\ Len(ValuesOf(PathFrom(hatches[i], k), "20"))
                      = Len(ValuesOf(PathFrom(hatches[i], k), "10"))

\* the vertex counts alone: every path written declares in group 94 the
\* number of 10/20 pairs written before its group 97
VertexCountsAreWritten ==
  dxf # <<>> =>
    LET hatches == EntitiesOfType(dxf, "HATCH")
    IN  \A i \in 1..Len(hatches) : \A k \in 1..Len(hatches[i]) :
          hatches[i][k][1] = "94" =>
            hatches[i][k][2] = ToString(Len(ValuesOf(PathFrom(hatches[i], k), "10")))

---------------------------------------------------------------------------
(* index.ts and trace/index.ts: POST /api/trace and traceImage             *)
(*                                                                         *)
(* A JavaScript value that is undefined, NaN or a number is a record       *)
(* [kind, n].  A field of req.body is absent, the empty string, a string   *)
(* of digits (with a sign) or another word.  epsilon and areaMin are       *)
(* counted in units of 0.0000001 (of a pixel, of a square pixel).          *)
(* The repository holds two trace/index.ts: the one with fixed bases       *)
(* (dxf.ts, lines 469 to 619, the one compiled in dist) and the one with   *)
(* bases scaled by the image size (part_007).                              *)

Undefined == [kind |-> "undefined", n |-> 0]
NaN == [kind |-> "NaN", n |-> 0]
Num(k) == [kind |-> "number", n |-> k]

Absent == [kind |-> "absent", n |-> 0]
EmptyString == [kind |-> "empty", n |-> 0]
Word == [kind |-> "word", n |-> 0]
Digits(k) == [kind |-> "digits", n |-> k]

\* a string is truthy unless it is empty; undefined is not
TruthyField(field) == field.kind \in {"digits", "word"}

\* parseInt(text, 10) of a string that is not empty
parseInt(field) == IF field.kind = "digits" THEN Num(field.n) ELSE NaN

\* a number is truthy unless it is 0 or NaN; undefined is not
Truthy(v) == v.kind = "number" /\ v.n # 0

\* a || b
Or(a, b) == IF Truthy(a) THEN a ELSE b

\* a < k and a > k are false when a is NaN
LessThan(a, k) == a.kind = "number" /\ a.n < k
GreaterThan(a, k) == a.kind = "number" /\ a.n > k

\* Math.max(k, v) for a number k
MathMax(k, v) == IF v.kind = "number" THEN Num(IF v.n > k THEN v.n ELSE k) ELSE NaN

\* one pixel, one square pixel
Px == 10000000

\* baseEpsilon * (1 - (fidelity / 100) * 0.8)
Epsilon(which, fidelity, size) ==
  IF fidelity.kind # "number" THEN NaN
  ELSE IF which = "fixed" THEN Num(20000 * (1000 - 8 * fidelity.n))
  ELSE Num(size * 20 * (1000 - 8 * fidelity.n))

\* baseAreaMin * (1 - (fidelity / 100) * 0.9)
AreaMin(which, fidelity, size) ==
  IF fidelity.kind # "number" THEN NaN
  ELSE IF which = "fixed" THEN Num(1000000 * (1000 - 9 * fidelity.n))
  ELSE Num(size * (1000 - 9 * fidelity.n))

\* request.threshold || 128 in the one, threshold !== undefined ?
\* threshold : 128 in the other
Threshold(which, threshold) ==
  IF which = "fixed" THEN Or(threshold, Num(128))
  ELSE IF threshold.kind # "undefined" THEN threshold ELSE Num(128)

calculateProcessingOptions(which, req, size) ==
  [epsilon |-> MathMax(Px \div 10, Epsilon(which, req.fidelity, size)),
   areaMin |-> MathMax(Px, Or(IF req.despeckleAreaMin.kind = "number"
                                 THEN Num(req.despeckleAreaMin.n * Px)
                                 ELSE req.despeckleAreaMin,
                               AreaMin(which, req.fidelity, size))),
   threshold |-> Threshold(which, req.threshold),
   useAI |-> req.useAI]

Builds == {"fixed", "scaled"}

\* Math.max(width, height) of the images
ImageSizes == {1, 50, 100, 20000}

FidelityFields == {Absent, EmptyString, Word} \cup
                  { Digits(k) : k \in {-1, 0, 1, 50, 99, 100, 101} }

ThresholdFields == {Absent, EmptyString, Word} \cup
                   { Digits(k) : k \in {-1, 0, 1, 128, 255, 256} }

DespeckleFields == {Absent, Digits(0), Digits(5)}

Bodies ==
  [file : BOOLEAN, fidelity : FidelityFields, threshold : ThresholdFields,
   despeckleAreaMin : DespeckleFields, whiteFill : BOOLEAN, useAI : BOOLEAN]

NoRequest ==
  [fidelity |-> Undefined, whiteFill |-> FALSE, threshold |-> Undefined,
   despeckleAreaMin |-> Undefined, useAI |-> FALSE]

NoOptions ==
  [epsilon |-> Undefined, areaMin |-> Undefined, threshold |-> Undefined,
   useAI |-> FALSE]

\* the parameters parsed out of req.body
TraceRequest(b) ==
  [fidelity |-> parseInt(IF TruthyField(b.fidelity) THEN b.fidelity ELSE Digits(50)),
   whiteFill |-> b.whiteFill,
   threshold |-> IF TruthyField(b.threshold) THEN parseInt(b.threshold) ELSE Undefined,
   despeckleAreaMin |-> IF TruthyField(b.despeckleAreaMin)
                          THEN parseInt(b.despeckleAreaMin) ELSE Undefined,
   useAI |-> b.useAI]

\* an error response, and the response that carries the result: what the
\* raster, vector and export stages make of an image with the options
ErrorResponse(status, code) ==
  [status |-> status, code |-> code, image |-> "none", options |-> NoOptions,
   whiteFill |-> FALSE]

ResultResponse(image, opts, fill) ==
  [status |-> 200, code |-> "none", image |-> image,
   options |-> [opts EXCEPT !.useAI = FALSE], whiteFill |-> fill]

ServerInit ==
  /\ ContourIdle
  /\ ExportIdle
  /\ WindingIdle
  /\ LateIdle
  /\ polygons = <<>> /\ gpc = "idle" /\ vi = 0
  /\ validPolygons = <<>> /\ emitted = <<>> /\ repairs = <<>>
  /\ minArea = 0 /\ cleaned = <<>> /\ closings = <<>>
  /\ build \in Builds
  /\ imageSize \in ImageSizes
  /\ body \in Bodies
  /\ spc = "handler"
  /\ request = NoRequest
  /\ options = NoOptions
  /\ hed = "none"
  /\ processedImage = "none"
  /\ calls = 0
  /\ responses = <<>>

notServed == <<contourVars, geomVars, exportVars, winding, lateVars, build, imageSize,
               body>>

Respond(response) ==
  /\ responses' = Append(responses, response)
  /\ spc' = "answered"

\* if (!req.file): 400
RejectMissingFile ==
  /\ spc = "handler"
  /\ ~body.file
  /\ Respond(ErrorResponse(400, "MISSING_FILE"))
  /\ UNCHANGED <<notServed, request, options, hed, processedImage, calls>>

\* if (fidelity < 0 || fidelity > 100): 400
RejectFidelity ==
  /\ spc = "handler"
  /\ body.file
  /\ LET fidelity == TraceRequest(body).fidelity
     IN IF LessThan(fidelity, 0) THEN TRUE ELSE GreaterThan(fidelity, 100)
  /\ Respond(ErrorResponse(400, "INVALID_FIDELITY"))
  /\ UNCHANGED <<notServed, request, options, hed, processedImage, calls>>

\* if (threshold !== undefined && (threshold < 0 || threshold > 255)): 400
RejectThreshold ==
  /\ spc = "handler"
  /\ body.file
  /\ LET fidelity == TraceRequest(body).fidelity
         threshold == TraceRequest(body).threshold
     IN /\ ~LessThan(fidelity, 0)
        /\ ~GreaterThan(fidelity, 100)
        /\ threshold.kind # "undefined"
        /\ IF LessThan(threshold, 0) THEN TRUE ELSE GreaterThan(threshold, 255)
  /\ Respond(ErrorResponse(400, "INVALID_THRESHOLD"))
  /\ UNCHANGED <<notServed, request, options, hed, processedImage, calls>>

\* the request passed the three checks: await traceImage(req.file.buffer,
\* traceRequest)
CallTraceImage ==
  /\ spc = "handler"
  /\ body.file
  /\ LET fidelity == TraceRequest(body).fidelity
         threshold == TraceRequest(body).threshold
     IN /\ ~LessThan(fidelity, 0)
        /\ ~GreaterThan(fidelity, 100)
        /\ IF threshold.kind = "undefined" THEN TRUE
           ELSE ~LessThan(threshold, 0) /\ ~GreaterThan(threshold, 255)
  /\ request' = TraceRequest(body)
  /\ calls' = calls + 1
  /\ spc' = "decode"
  /\ UNCHANGED <<notServed, options, hed, processedImage, responses>>

\* PNG.sync.read(buffer) reads the image
Decode ==
  /\ spc = "decode"
  /\ processedImage' = "original"
  /\ spc' = "decoded"
  /\ UNCHANGED <<notServed, request, options, hed, calls, responses>>

\* PNG.sync.read(buffer) throws: the buffer is no PNG
DecodeThrows ==
  /\ spc = "decode"
  /\ spc' = "failed"
  /\ UNCHANGED <<notServed, request, options, hed, processedImage, calls, responses>>

\* the options are calculated before the AI step where the bases are
\* scaled, after it where they are fixed
OptionsDue == IF build = "scaled" THEN hed = "none" ELSE hed # "none"

CalculateOptions ==
  /\ spc = "decoded"
  /\ OptionsDue
  /\ options = NoOptions
  /\ options' = calculateProcessingOptions(build, request, imageSize)
  /\ UNCHANGED <<notServed, spc, request, hed, processedImage, calls, responses>>

HedDue == hed = "none" /\ (IF build = "scaled" THEN options # NoOptions ELSE TRUE)

\* if (request.useAI) is false
SkipHED ==
  /\ spc = "decoded"
  /\ HedDue
  /\ ~request.useAI
  /\ hed' = "skipped"
  /\ UNCHANGED <<notServed, spc, request, options, processedImage, calls, responses>>

\* processWithHED returns: the image it was given when there is no model,
\* the edge map otherwise
ProcessWithHED ==
  /\ spc = "decoded"
  /\ HedDue
  /\ request.useAI
  /\ \E outcome \in {"unavailable", "edges"} :
       /\ hed' = outcome
       /\ processedImage' = IF outcome = "edges" THEN "edges" ELSE "original"
  /\ UNCHANGED <<notServed, spc, request, options, calls, responses>>

\* the catch of the AI step rethrows
HedErrorRethrown == "failed"

\* the catch of the AI step: warn, and go on with the image as decoded
HedErrorCaught == "decoded"

\* processWithHED throws
ProcessWithHEDThrows ==
  /\ spc = "decoded"
  /\ HedDue
  /\ request.useAI
  /\ hed' = "throws"
  /\ processedImage' = "original"
  /\ spc' = HedErrorCaught
  /\ UNCHANGED <<notServed, request, options, calls, responses>>

\* the raster, vector and export stages, the return of traceImage and
\* res.json(result)
ReturnResult ==
  /\ spc = "decoded"
  /\ hed # "none"
  /\ options # NoOptions
  /\ Respond(ResultResponse(processedImage, options, request.whiteFill))
  /\ UNCHANGED <<notServed, request, options, hed, processedImage, calls>>

\* the catch of the handler: 500
RespondProcessingError ==
  /\ spc = "failed"
  /\ Respond(ErrorResponse(500, "PROCESSING_ERROR"))
  /\ UNCHANGED <<notServed, request, options, hed, processedImage, calls>>

ServerNext ==
  \/ RejectMissingFile
  \/ RejectFidelity
  \/ RejectThreshold
  \/ CallTraceImage
  \/ Decode
  \/ DecodeThrows
  \/ CalculateOptions
  \/ SkipHED
  \/ ProcessWithHED
  \/ ProcessWithHEDThrows
  \/ ReturnResult
  \/ RespondProcessingError

ServerSpec == ServerInit /\ [][ServerNext]_vars

---------------------------------------------------------------------------
(* The claims about the options, the threshold, the AI step and the route  *)

OptionsCalculated == options # NoOptions /\ request.fidelity.kind = "number"

\* the request at hand with another fidelity
AtFidelity(f) == calculateProcessingOptions(build, [request EXCEPT !.fidelity = Num(f)],
                                            imageSize)

\* the request at hand with another fidelity and no despeckleAreaMin
MappedAt(f) ==
  calculateProcessingOptions(build, [request EXCEPT !.fidelity = Num(f),
                                                    !.despeckleAreaMin = Undefined],
                             imageSize)

\* epsilon is at least 0.1 and areaMin at least 1, and neither grows when
\* the fidelity does
OptionsNeverIncrease ==
  OptionsCalculated =>
    /\ options.epsilon.kind = "number" /\ options.epsilon.n >= Px \div 10
    /\ options.areaMin.kind = "number" /\ options.areaMin.n >= Px
    /\ \A g \in 0..100 :
         g >= request.fidelity.n =>
           /\ AtFidelity(g).epsilon.n <= options.epsilon.n
           /\ AtFidelity(g).areaMin.n <= options.areaMin.n

\* C15: the options calculated from a request have epsilon at least 0.1 and
\* areaMin at least 1, neither of the two grows when the fidelity grows
\* within 0..100, and the fidelity mapping gives a strictly smaller epsilon
\* and a strictly smaller areaMin at fidelity 100 than at fidelity 0.
C15_StrictlySmallerAtFullFidelity ==
  /\ OptionsNeverIncrease
  /\ OptionsCalculated =>
       /\ MappedAt(100).epsilon.n < MappedAt(0).epsilon.n
       /\ MappedAt(100).areaMin.n < MappedAt(0).areaMin.n

\* C16: the threshold of the options is the threshold of the request
\* whenever the request has one, whatever value in 0..255 it is, and it is
\* 128 when the request has none.
C16_ThresholdAsSupplied ==
  options # NoOptions =>
    /\ (request.threshold.kind = "number" /\ request.threshold.n \in 0..255)
         => options.threshold = request.threshold
    /\ request.threshold.kind = "undefined" => options.threshold = Num(128)

\* what traceImage returns for the request at hand with useAI false
WithoutAI ==
  ResultResponse("original",
                 calculateProcessingOptions(build, [request EXCEPT !.useAI = FALSE],
                                            imageSize),
                 request.whiteFill)

\* C17: when useAI is true and processWithHED throws or has no model,
\* traceImage does not fail: it goes on with the image as decoded and
\* returns what it returns for the same request with useAI false.
C17_FallsBackToOriginal ==
  (request.useAI /\ hed \in {"throws", "unavailable"}) =>
    /\ spc # "failed"
    /\ processedImage = "original"
    /\ spc = "answered" => responses = <<WithoutAI>>

C17_Witness ==
  /\ request.useAI
  /\ hed = "throws"
  /\ spc = "answered"
  /\ responses = <<WithoutAI>>
  /\ responses[1].status = 200

\* the parsed fidelity is a number within 0..100
FidelityInRange(req) == req.fidelity.kind = "number" /\ req.fidelity.n \in 0..100

\* the parsed threshold, if there is one, is a number within 0..255
ThresholdInRange(req) ==
  req.threshold.kind # "undefined" =>
    (req.threshold.kind = "number" /\ req.threshold.n \in 0..255)

Acceptable ==
  body.file /\ FidelityInRange(TraceRequest(body)) /\ ThresholdInRange(TraceRequest(body))

\* C18: traceImage is invoked only for a request with a file, a fidelity
\* that is a number within 0..100 and a threshold that, if supplied, is
\* within 0..255; every other request is answered with status 400 and one
\* of MISSING_FILE, INVALID_FIDELITY, INVALID_THRESHOLD; and no request
\* gets more than one response, a request that is done exactly one.
C18_TraceOnlyWhenValid ==
  /\ calls > 0 => Acceptable
  /\ Len(responses) <= 1
  /\ spc = "answered" =>
       /\ Len(responses) = 1
       /\ ~Acceptable =>
            /\ responses[1].status = 400
            /\ responses[1].code \in {"MISSING_FILE", "INVALID_FIDELITY",
                                      "INVALID_THRESHOLD"}

---------------------------------------------------------------------------
(* contour.ts: ensureWindingOrder                                          *)

\* the sum over every edge of the ring, the one from the last point back
\* to the first included
RECURSIVE WindingSum(_, _)
WindingSum(ps, i) ==
  IF i > Len(ps) THEN 0
  ELSE LET j == (i % Len(ps)) + 1
       IN (ps[j].x - ps[i].x) * (ps[j].y + ps[i].y) + WindingSum(ps, i + 1)

isClockwise(ps) == WindingSum(ps, 1) > 0

ensureWindingOrder(ps, clockwise) ==
  IF Len(ps) < 3 THEN ps
  ELSE IF isClockwise(ps) # clockwise THEN Reverse(ps)
  ELSE ps

WindingGrid == 1
MaxWindingLen == 4

WindingPoints == [x : 0..WindingGrid, y : 0..WindingGrid]

WindingRings == UNION { [1..n -> WindingPoints] : n \in 0..MaxWindingLen }

WindingInit ==
  /\ ContourIdle
  /\ ExportIdle
  /\ ServerIdle
  /\ LateIdle
  /\ polygons = <<>> /\ gpc = "idle" /\ vi = 0
  /\ validPolygons = <<>> /\ emitted = <<>> /\ repairs = <<>>
  /\ minArea = 0 /\ cleaned = <<>> /\ closings = <<>>
  /\ winding \in [points : WindingRings, clockwise : BOOLEAN, result : {<<>>},
                  called : {FALSE}]

EnsureWindingOrder ==
  /\ ~winding.called
  /\ winding' = [winding EXCEPT !.result = ensureWindingOrder(winding.points,
                                                              winding.clockwise),
                                !.called = TRUE]
  /\ UNCHANGED <<contourVars, geomVars, exportVars, serverVars, lateVars>>

WindingSpec == WindingInit /\ [][EnsureWindingOrder]_vars

\* the ring is left as it is when it has fewer than 3 points or winds the
\* way that is wanted, and is turned round otherwise
WindingAsWanted ==
  winding.called =>
    /\ Len(winding.result) = Len(winding.points)
    /\ Len(winding.points) >= 3 => isClockwise(winding.result) = winding.clockwise
         \/ WindingSum(winding.points, 1) = 0

\* C19: ensureWindingOrder returns the ring as it is when the ring has
\* fewer than 3 points or already winds the way that is wanted; otherwise
\* it returns the ring traversed backwards from the same first point: the
\* first point of the result is the first point of the input, the second
\* is the last point of the input, and so on.
C19_ReversedFromSameStart ==
  winding.called =>
    LET ps == winding.points
        r == winding.result
    IN IF Len(ps) < 3 THEN r = ps
       ELSE IF isClockwise(ps) = winding.clockwise THEN r = ps
       ELSE /\ Len(r) = Len(ps)
            /\ r[1] = ps[1]
            /\ \A k \in 2..Len(ps) : r[k] = ps[Len(ps) - k + 2]

---------------------------------------------------------------------------
(* The trace of the exterior scan *)

\* C20: every trace the exterior scan starts ends: it comes back to its
\* start with at least 3 points recorded, or stops where no neighbour is
\* found; it never goes round a cycle that avoids its start for ever.
C20_ExteriorTraceEnds == (pc = "trace") ~> (pc = "push")

---------------------------------------------------------------------------
(* The holes of the contours returned *)

\* the trace under way or just over is one of findHoles
HoleTraced == points # <<>> /\ Pixel(imageData, startX, startY) = BG

ContoursOf(blob) ==
  { i \in 1..Len(contours) :
      (contours[i].points[1].y * imageData.width + contours[i].points[1].x) \in blob }

\* C22: extractContours collects at most one contour for each 8-connected
\* foreground blob: once the boundary of a blob has been traced, no later
\* position of the scan inside the same blob starts another contour.
C22_AtMostOnePerBlob ==
  \A blob \in Blobs(imageData) : Cardinality(ContoursOf(blob)) <= 1

---------------------------------------------------------------------------
(* The repair step of validateGeometry *)

\* the places of the output that polygon i of the input went to
EmittedAt(i) == { k \in 1..Len(emitted) : emitted[k] = i }

\* the library returned no polygon, or a first polygon without a ring
EmptyResult(r) ==
  r.kind = "returns" /\ (IF r.value = <<>> THEN TRUE ELSE r.value[1] = <<>>)

\* C23: in the repair step of validateGeometry, a polygon for which the
\* polygon-clipping library returns an empty result is not in the output;
\* one for which it returns one polygon or more is in the output once, as
\* the first polygon returned; one for which it throws is in the output
\* once, as the polygon handed to the repair: closed, without duplicate
\* points, its winding normalised.
C23_RepairOutcomes ==
  \A i \in 1..Len(repairs) :
    LET r == repairs[i]
    IN  /\ EmptyResult(r) => EmittedAt(i) = {}
        /\ (r.kind = "returns" /\ ~EmptyResult(r)) =>
             /\ Cardinality(EmittedAt(i)) = 1
             /\ \A k \in EmittedAt(i) :
                  /\ ToCoords(validPolygons[k].exterior) = r.value[1][1]
                  /\ Len(validPolygons[k].holes) = Len(r.value[1]) - 1
                  /\ \A h \in 1..Len(validPolygons[k].holes) :
                       ToCoords(validPolygons[k].holes[h]) = r.value[1][h + 1]
        /\ r.kind = "throws" =>
             /\ Cardinality(EmittedAt(i)) = 1
             /\ \A k \in EmittedAt(i) :
                  /\ validPolygons[k].exterior =
                       ensureCounterClockwise(
                         removeDuplicatePoints(ensureClosedRing(polygons[i].exterior),
                                               tolerance))
                  /\ validPolygons[k].holes = orientedHoles(polygons[i])

\* of two polygons the library threw for the first, which is in the output
\* closed or turned round, and returned two polygons for the second
C23_Witness ==
  /\ gpc = "done"
  /\ Len(repairs) = 2
  /\ repairs[1].kind = "throws"
  /\ repairs[2].kind = "returns" /\ Len(repairs[2].value) = 2
  /\ emitted = <<1, 2>>
  /\ validPolygons[1].exterior # polygons[1].exterior

\* the library returned no polygon for the first of two polygons
C23_WitnessEmpty ==
  /\ gpc = "done"
  /\ Len(repairs) = 2
  /\ repairs[1] = [kind |-> "returns", value |-> <<>>]
  /\ repairs[2].kind = "throws"
  /\ emitted = <<2>>

---------------------------------------------------------------------------
(* removeDuplicatePoints applied to a ring, then to its own result *)

\* points 3 units (0.00075) and 4 units (0.001) apart, and further
DedupPoints == { Pt(px, py) : px \in {0, 3, 4, 6}, py \in {0, 3} }

DedupInit ==
  /\ ContourIdle
  /\ ExportIdle /\ WindingIdle /\ ServerIdle
  /\ polygons = <<>> /\ gpc = "idle" /\ vi = 0
  /\ validPolygons = <<>> /\ emitted = <<>> /\ repairs = <<>>
  /\ minArea = 0 /\ cleaned = <<>> /\ closings = <<>>
  /\ dedup \in { <<r>> : r \in Rings(DedupPoints) }
  /\ simplifyRun = <<>> /\ raster = <<>> /\ validity = <<>> /\ hedProc = <<>>

RemoveDuplicatePoints ==
  /\ Len(dedup) < 3
  /\ dedup' = Append(dedup, removeDuplicatePoints(dedup[Len(dedup)], tolerance))
  /\ UNCHANGED <<contourVars, geomVars, exportVars, winding, serverVars, simplifyRun,
                 raster, validity, hedProc>>

DedupSpec == DedupInit /\ [][RemoveDuplicatePoints]_vars

\* the two points are less than the tolerance apart
Near(a, b) == (a.x - b.x) * (a.x - b.x) + (a.y - b.y) * (a.y - b.y) < tolerance * tolerance

\* the last index of keep before j
KeptBefore(keep, j) == CHOOSE k \in keep : k < j /\ \A m \in keep : m < j => m <= k

\* the i-th index of keep, from the smallest
NthOf(keep, i) == CHOOSE k \in keep : Cardinality({ m \in keep : m < k }) = i - 1

\* r is what is left of ps when the points at the indices of keep are
\* kept: the first is, no two kept points that follow each other are near,
\* every point that is dropped is near the kept point before it
CollapsesTo(ps, r, keep) ==
  /\ 1 \in keep
  /\ Len(r) = Cardinality(keep)
  /\ \A i \in 1..Len(r) : r[i] = ps[NthOf(keep, i)]
  /\ \A i \in 1..(Len(r) - 1) : ~Near(r[i], r[i + 1])
  /\ \A j \in (1..Len(ps)) \ keep : Near(ps[j], ps[KeptBefore(keep, j)])

\* C24: removeDuplicatePoints returns the points of the ring at some of its
\* indices, in their order, the first point among them; no two points of
\* the result that follow each other are less than 0.001 apart; every point
\* dropped is less than 0.001 from the kept point before it; and applying
\* it to its own result changes nothing.
C24_CollapseOfDuplicates ==
  /\ Len(dedup) >= 2 =>
       IF dedup[1] = <<>> THEN dedup[2] = <<>>
       ELSE \E keep \in SUBSET (1..Len(dedup[1])) : CollapsesTo(dedup[1], dedup[2], keep)
  /\ Len(dedup) >= 3 => dedup[3] = dedup[2]

\* the second point was dropped for being near the first, the third kept
\* although it is near the second, and the second pass changed nothing
C24_Witness ==
  /\ Len(dedup) = 3
  /\ Len(dedup[1]) = 4
  /\ Near(dedup[1][1], dedup[1][2])
  /\ Near(dedup[1][2], dedup[1][3])
  /\ dedup[2] = <<dedup[1][1], dedup[1][3], dedup[1][4]>>
  /\ dedup[3] = dedup[2]

---------------------------------------------------------------------------
(* contour.ts: simplifyContours                                            *)
(*                                                                         *)
(* simplify(points, epsilon, true) is the simplify-js library: the         *)
(* Douglas-Peucker reduction of the ring taken as an open path.  Points    *)
(* are pixel positions, epsilon is counted in tenths of a pixel.           *)

\* 100 times the square of the deviation of p from the chord a-b, times
\* the square of the chord's length; the distance from a for a chord of
\* no length
Deviation(p, a, b) ==
  LET dx == b.x - a.x
      dy == b.y - a.y
      cross == (p.x - a.x) * dy - (p.y - a.y) * dx
  IN  IF dx = 0 /\ dy = 0
      THEN 100 * ((p.x - a.x) * (p.x - a.x) + (p.y - a.y) * (p.y - a.y))
      ELSE 100 * cross * cross

\* the square of epsilon, times the square of the chord's length
Allowed(a, b, eps) ==
  LET dx == b.x - a.x
      dy == b.y - a.y
  IN  IF dx = 0 /\ dy = 0 THEN eps * eps ELSE eps * eps * (dx * dx + dy * dy)

\* the indices kept between first and last, both kept: the point that
\* deviates most is kept, and each side is reduced in turn, when that
\* point deviates by more than epsilon
RECURSIVE DouglasPeucker(_, _, _, _)
DouglasPeucker(ps, first, last, eps) ==
  IF last - first < 2 THEN {first, last}
  ELSE LET inner == (first + 1)..(last - 1)
           dev(i) == Deviation(ps[i], ps[first], ps[last])
           index == CHOOSE i \in inner :
                      /\ \A j \in inner : dev(j) <= dev(i)
                      /\ \A j \in inner : j < i => dev(j) < dev(i)
       IN  IF dev(index) > Allowed(ps[first], ps[last], eps)
           THEN DouglasPeucker(ps, first, index, eps) \cup
                DouglasPeucker(ps, index, last, eps)
           ELSE {first, last}

\* the points of ps at the indices of keep, in their order
Pick(ps, keep) == SelectSeq([i \in 1..Len(ps) |-> IF i \in keep THEN <<ps[i]>> ELSE <<>>],
                            LAMBDA e : e # <<>>)

simplify(ps, eps) ==
  LET kept == Pick(ps, DouglasPeucker(ps, 1, Len(ps), eps))
  IN  [i \in 1..Len(kept) |-> kept[i][1]]

\* the ring taken as closed: its last point goes
simplifyPointsClosed(ps, eps) ==
  IF Len(ps) <= 2 THEN ps ELSE SubSeq(simplify(ps, eps), 1, Len(simplify(ps, eps)) - 1)

\* if (points.length <= 2) return points; simplify(...)
simplifyPoints(ps, eps) == IF Len(ps) <= 2 THEN ps ELSE simplify(ps, eps)

simplifyContours(cs, eps) ==
  [c \in 1..Len(cs) |->
     [cs[c] EXCEPT !.points = simplifyPoints(cs[c].points, eps),
                   !.holes = [h \in 1..Len(cs[c].holes) |->
                                simplifyPoints(cs[c].holes[h], eps)]]]

MaxContours == 2

\* the rings of the simplifier's tests, a zigzag, and rings too short to
\* be reduced
ManyOnALine ==
  <<Pt(0, 0), Pt(1, 0), Pt(2, 0), Pt(3, 0), Pt(4, 0), Pt(4, 4), Pt(0, 4), Pt(0, 0)>>

HoleOfTest ==
  <<Pt(2, 2), Pt(3, 2), Pt(4, 2), Pt(5, 2), Pt(5, 5), Pt(2, 5), Pt(2, 2)>>

Zigzag == <<Pt(0, 0), Pt(1, 1), Pt(2, 0), Pt(3, 1), Pt(4, 0)>>

SimplifyRings ==
  { <<>>, <<Pt(0, 0), Pt(4, 0)>>, <<Pt(0, 0), Pt(1, 0), Pt(2, 0)>>, ManyOnALine,
    HoleOfTest, Zigzag }

SimplifyContoursOf ==
  [points : SimplifyRings,
   holes : { <<>>, <<HoleOfTest>>, <<Zigzag, <<Pt(1, 1), Pt(2, 2)>> >> },
   isHole : {FALSE}, parent : {-1}]

SimplifyInit ==
  /\ ContourIdle
  /\ ExportIdle /\ WindingIdle /\ ServerIdle
  /\ polygons = <<>> /\ gpc = "idle" /\ vi = 0
  /\ validPolygons = <<>> /\ emitted = <<>> /\ repairs = <<>>
  /\ minArea = 0 /\ cleaned = <<>> /\ closings = <<>>
  /\ dedup = <<>> /\ raster = <<>> /\ validity = <<>> /\ hedProc = <<>>
  /\ simplifyRun \in
       [contours : UNION { [1..n -> SimplifyContoursOf] : n \in 0..MaxContours },
        epsilon : {1, 5, 20}, result : {<<>>}, called : {FALSE}]

SimplifyContours ==
  /\ ~simplifyRun.called
  /\ simplifyRun' =
       [simplifyRun EXCEPT !.result = simplifyContours(simplifyRun.contours,
                                                       simplifyRun.epsilon),
                           !.called = TRUE]
  /\ UNCHANGED <<contourVars, geomVars, exportVars, winding, serverVars, dedup, raster,
                 validity, hedProc>>

SimplifySpec == SimplifyInit /\ [][SimplifyContours]_vars

\* r is made of points of ps in their order, the first and the last of ps
\* among them
KeepsEnds(ps, r) ==
  IF ps = <<>> THEN r = <<>>
  ELSE \E keep \in SUBSET (1..Len(ps)) :
         /\ 1 \in keep /\ Len(ps) \in keep
         /\ Len(r) = Cardinality(keep)
         /\ \A i \in 1..Len(r) : r[i] = ps[NthOf(keep, i)]

\* the rings handed in, and the rings handed out, exterior before holes
RingsIn == RingsOf([c \in 1..Len(simplifyRun.contours) |->
                      [exterior |-> simplifyRun.contours[c].points,
                       holes |-> simplifyRun.contours[c].holes]], 1)

RingsOut == RingsOf([c \in 1..Len(simplifyRun.result) |->
                       [exterior |-> simplifyRun.result[c].points,
                        holes |-> simplifyRun.result[c].holes]], 1)

\* C25: simplifyContours returns as many contours as it was given, each
\* with as many holes as it had; every ring returned is made of points of
\* the ring it comes from, in their order, with the first and the last
\* point of that ring; what a ring becomes depends on that ring alone.
C25_SubsequenceWithEnds ==
  simplifyRun.called =>
    /\ Len(simplifyRun.result) = Len(simplifyRun.contours)
    /\ \A c \in 1..Len(simplifyRun.contours) :
         /\ Len(simplifyRun.result[c].holes) = Len(simplifyRun.contours[c].holes)
         /\ simplifyRun.result[c].isHole = simplifyRun.contours[c].isHole
         /\ simplifyRun.result[c].parent = simplifyRun.contours[c].parent
    /\ Len(RingsOut) = Len(RingsIn)
    /\ \A k \in 1..Len(RingsIn) : KeepsEnds(RingsIn[k], RingsOut[k])
    /\ \A k, m \in 1..Len(RingsIn) : RingsIn[k] = RingsIn[m] => RingsOut[k] = RingsOut[m]

\* the ring of the test lost points and kept its ends, next to a contour
\* whose hole did
C25_Witness ==
  /\ simplifyRun.called
  /\ Len(simplifyRun.contours) = 2
  /\ simplifyRun.contours[1].points = ManyOnALine
  /\ Len(simplifyRun.result[1].points) < Len(ManyOnALine)
  /\ simplifyRun.result[1].points[1] = Pt(0, 0)
  /\ simplifyRun.contours[2].holes = <<HoleOfTest>>
  /\ Len(simplifyRun.result[2].holes[1]) < Len(HoleOfTest)

---------------------------------------------------------------------------
(* raster.ts: removeSpeckles and floodFill                                 *)
(*                                                                         *)
(* A pixel is [r, g, b, a]; the data of an image is a function from the    *)
(* pixel's index y * width + x to the pixel.  `raster` holds the image     *)
(* handed in, the locals of the function under way and, in `components`,   *)
(* the components floodFill returned.                                      *)

Black == [r |-> 0, g |-> 0, b |-> 0, a |-> 255]
White == [r |-> 255, g |-> 255, b |-> 255, a |-> 255]

\* the bitmap as an RGBA image
Rgba(img) ==
  [width |-> img.width, height |-> img.height,
   data |-> [i \in DOMAIN img.data |-> IF img.data[i] = FG THEN Black ELSE White]]

\* a threshold one too high: a component of minArea pixels goes as well
AtMost(n, minA) == n <= minA

\* if (component.length < minArea)
FewerThan(n, minA) == n < minA

\* cleanedData[pixelIdx * 4] = 255, and + 1, and + 2
Whiten(data, component) ==
  [i \in DOMAIN data |->
     IF \E k \in 1..Len(component) : component[k] = i
     THEN [data[i] EXCEPT !.r = 255, !.g = 255, !.b = 255]
     ELSE data[i]]

SpeckleAreas == {1, 2, 3}

SpecklesInit ==
  /\ ContourIdle
  /\ ExportIdle /\ WindingIdle /\ ServerIdle
  /\ polygons = <<>> /\ gpc = "idle" /\ vi = 0
  /\ validPolygons = <<>> /\ emitted = <<>> /\ repairs = <<>>
  /\ minArea = 0 /\ cleaned = <<>> /\ closings = <<>>
  /\ dedup = <<>> /\ simplifyRun = <<>> /\ validity = <<>> /\ hedProc = <<>>
  /\ \E img \in SmallBitmaps, minA \in SpeckleAreas :
       raster = [image |-> Rgba(img), minArea |-> minA, pc |-> "sweep", x |-> 0, y |-> 0,
                 visited |-> {}, cleanedData |-> Rgba(img).data, stack |-> <<>>,
                 component |-> <<>>, components |-> <<>>]

notRaster == <<contourVars, geomVars, exportVars, winding, serverVars, dedup,
               simplifyRun, validity, hedProc>>

\* x++ of the sweep, y++ at the end of a row
SweepOn(r) ==
  IF r.x + 1 < r.image.width
  THEN [r EXCEPT !.x = r.x + 1]
  ELSE [r EXCEPT !.x = 0, !.y = r.y + 1]

\* if (!visited[index] && data[pixelIndex] === 0)
SweepCandidate(r) ==
  LET index == r.y * r.image.width + r.x
  IN  index \notin r.visited /\ r.image.data[index].r = 0

\* a pixel of the sweep that starts no fill
SweepSkip ==
  /\ raster.pc = "sweep" /\ raster.y < raster.image.height
  /\ ~SweepCandidate(raster)
  /\ raster' = SweepOn(raster)
  /\ UNCHANGED notRaster

\* floodFill(imageData, x, y, visited) is entered
SweepFill ==
  /\ raster.pc = "sweep" /\ raster.y < raster.image.height
  /\ SweepCandidate(raster)
  /\ raster' = [raster EXCEPT !.pc = "fill", !.stack = << <<raster.x, raster.y>> >>,
                              !.component = <<>>]
  /\ UNCHANGED notRaster

\* one round of floodFill's while loop
FloodPop ==
  /\ raster.pc = "fill" /\ raster.stack # <<>>
  /\ LET top == raster.stack[Len(raster.stack)]
         rest == SubSeq(raster.stack, 1, Len(raster.stack) - 1)
         px == top[1]
         py == top[2]
         index == py * raster.image.width + px
         inside == px >= 0 /\ px < raster.image.width /\ py >= 0 /\ py < raster.image.height
         taken == IF inside
                  THEN index \notin raster.visited /\ raster.image.data[index].r = 0
                  ELSE FALSE
     IN  raster' =
           IF taken
           THEN [raster EXCEPT !.visited = @ \cup {index},
                               !.component = Append(@, index),
                               !.stack = rest \o << <<px + 1, py>>, <<px - 1, py>>,
                                                    <<px, py + 1>>, <<px, py - 1>> >>]
           ELSE [raster EXCEPT !.stack = rest]
  /\ UNCHANGED notRaster

\* floodFill returns: a small component is set to white, the sweep goes on
FloodReturn ==
  /\ raster.pc = "fill" /\ raster.stack = <<>>
  /\ raster' =
       SweepOn([raster EXCEPT
                  !.pc = "sweep",
                  !.component = <<>>,
                  !.components = Append(@, raster.component),
                  !.cleanedData = IF FewerThan(Len(raster.component), raster.minArea)
                                  THEN Whiten(@, raster.component) ELSE @])
  /\ UNCHANGED notRaster

\* removeSpeckles returns { width, height, data: cleanedData }
SpecklesReturn ==
  /\ raster.pc = "sweep" /\ raster.y >= raster.image.height
  /\ raster' = [raster EXCEPT !.pc = "done"]
  /\ UNCHANGED notRaster

SpecklesNext ==
  \/ SweepSkip \/ SweepFill \/ FloodPop \/ FloodReturn \/ SpecklesReturn

SpecklesSpec == SpecklesInit /\ [][SpecklesNext]_vars

\* the pixels a and b share a side
Beside(w, a, b) ==
  Abs((a % w) - (b % w)) + Abs((a \div w) - (b \div w)) = 1

\* the 4-connected set of pixels of fg that S spreads to
RECURSIVE Spread(_, _, _)
Spread(w, S, fg) ==
  LET T == S \cup { b \in fg : \E a \in S : Beside(w, a, b) }
  IN  IF T = S THEN S ELSE Spread(w, T, fg)

\* the pixels with a red channel of 0
Foreground(img) == { i \in DOMAIN img.data : img.data[i].r = 0 }

\* the components floodFill has returned, and the one it is gathering
Gathered == raster.components \o <<raster.component>>

\* how many times the pixel was put into a component
TimesGathered(i) ==
  Cardinality({ ck \in { <<c, k>> : c \in 1..Len(Gathered), k \in 1..MaxCells + 1 } :
                  IF ck[2] <= Len(Gathered[ck[1]]) THEN Gathered[ck[1]][ck[2]] = i
                  ELSE FALSE })

\* C26: removeSpeckles sets to white exactly the foreground pixels of the
\* 4-connected foreground components of fewer than minArea pixels and
\* hands every other pixel on as it is; during the sweep no pixel is put
\* into a component twice, a pixel that is not foreground never, and when
\* the sweep is over every foreground pixel has been put into one, each
\* component being a whole 4-connected component.
C26_SmallComponentsErased ==
  LET img == raster.image
      fg == Foreground(img)
  IN  /\ \A i \in DOMAIN img.data :
           TimesGathered(i) <= (IF i \in fg THEN 1 ELSE 0)
      /\ \A c \in 1..Len(raster.components) :
           Range(raster.components[c]) = Spread(img.width, {raster.components[c][1]}, fg)
      /\ raster.pc = "done" =>
           /\ \A i \in fg : TimesGathered(i) = 1
           /\ \A i \in DOMAIN img.data :
                raster.cleanedData[i] =
                  IF i \in fg /\ Cardinality(Spread(img.width, {i}, fg)) < raster.minArea
                  THEN [img.data[i] EXCEPT !.r = 255, !.g = 255, !.b = 255]
                  ELSE img.data[i]

\* of two components the one of 1 pixel went and the one of 3 pixels, an
\* L whose pixels touch by their sides, stayed
C26_Witness ==
  /\ raster.pc = "done"
  /\ raster.minArea = 3
  /\ Len(raster.components) = 2
  /\ \E c \in 1..2 : Len(raster.components[c]) = 1
  /\ \E c \in 1..2 : Len(raster.components[c]) = 3
  /\ Cardinality({ i \in DOMAIN raster.cleanedData : raster.cleanedData[i].r = 0 }) = 3
  /\ Cardinality(Blobs([width |-> raster.image.width, height |-> raster.image.height,
                        data |-> [i \in DOMAIN raster.image.data |->
                                    raster.image.data[i].r]])) = 1

---------------------------------------------------------------------------
(* raster.ts: binarizeImage, morphologyCleanup and removeSpeckles in a row *)
(*                                                                         *)
(* The luminance is computed in double precision: 0.299 * r + 0.587 * g +  *)
(* 0.114 * b, the products and the sums each rounded to 53 bits.  With     *)
(* whole channels the exact value is a multiple of 0.001, so the rounding  *)
(* decides the comparison with a whole threshold only where the exact      *)
(* value IS the threshold; there the double is the exact value for some    *)
(* pixels (0, 100, 200, 255 on all three channels) and the next double     *)
(* below it for others (127.99999999999999 for 128 on all three channels). *)

Grey(v, alpha) == [r |-> v, g |-> v, b |-> v, a |-> alpha]

\* the pixels of the model whose luminance in doubles is below the exact one
RoundedBelow == { Grey(128, 255) }

\* luminance >= threshold, as the doubles compare
LuminanceAtLeast(px, t) ==
  LET exact == 299 * px.r + 587 * px.g + 114 * px.b
  IN  IF exact = 1000 * t THEN px \notin RoundedBelow ELSE exact > 1000 * t

binarizeImage(img, t) ==
  [width |-> img.width, height |-> img.height,
   data |-> [i \in DOMAIN img.data |->
               LET binaryValue == IF LuminanceAtLeast(img.data[i], t) THEN 255 ELSE 0
               IN  [r |-> binaryValue, g |-> binaryValue, b |-> binaryValue, a |-> 255]]]

\* the red channels under the 3x3 kernel that lie inside the image
Sampled(img, i) ==
  LET col == i % img.width
      row == i \div img.width
  IN  { img.data[q[1] * img.width + q[2]].r :
          q \in { n \in {row - 1, row, row + 1} \X {col - 1, col, col + 1} :
                    /\ n[1] >= 0 /\ n[1] < img.height
                    /\ n[2] >= 0 /\ n[2] < img.width } }

morphologyDilation(img) ==
  [img EXCEPT !.data = [i \in DOMAIN img.data |->
     LET minValue == CHOOSE v \in Sampled(img, i) \cup {255} :
                       \A u \in Sampled(img, i) \cup {255} : v <= u
     IN  [r |-> minValue, g |-> minValue, b |-> minValue, a |-> 255]]]

morphologyErosion(img) ==
  [img EXCEPT !.data = [i \in DOMAIN img.data |->
     LET maxValue == CHOOSE v \in Sampled(img, i) \cup {0} :
                       \A u \in Sampled(img, i) \cup {0} : v >= u
     IN  [r |-> maxValue, g |-> maxValue, b |-> maxValue, a |-> 255]]]

\* one iteration, the default
morphologyCleanup(img) == morphologyErosion(morphologyDilation(img))

MaxStages == 2

\* pixels of the image handed in: black, white, two greys, one of them
\* wholly transparent
InputPixels == { Black, White, Grey(128, 255), Grey(100, 0) }

InputThresholds == {100, 128}

InputImages ==
  { [width |-> wh[1], height |-> wh[2], data |-> d] :
      wh \in { <<2, 2>> }, d \in [0..3 -> InputPixels] }
  \cup { [width |-> 3, height |-> 1, data |-> d] : d \in [0..2 -> InputPixels] }

BinaryInit ==
  /\ ContourIdle
  /\ ExportIdle /\ WindingIdle /\ ServerIdle
  /\ polygons = <<>> /\ gpc = "idle" /\ vi = 0
  /\ validPolygons = <<>> /\ emitted = <<>> /\ repairs = <<>>
  /\ minArea = 0 /\ cleaned = <<>> /\ closings = <<>>
  /\ dedup = <<>> /\ simplifyRun = <<>> /\ validity = <<>> /\ hedProc = <<>>
  /\ \E img \in InputImages, t \in InputThresholds :
       raster = [source |-> img, threshold |-> t, stages |-> <<>>,
                 image |-> img, minArea |-> 0, pc |-> "given", x |-> 0, y |-> 0,
                 visited |-> {}, cleanedData |-> img.data, stack |-> <<>>,
                 component |-> <<>>, components |-> <<>>]

\* binarizeImage(imageData, threshold)
BinarizeImage ==
  /\ raster.pc = "given"
  /\ raster' = [raster EXCEPT !.pc = "binary",
                              !.image = binarizeImage(raster.source, raster.threshold)]
  /\ UNCHANGED notRaster

\* morphologyCleanup(result)
MorphologyCleanup ==
  /\ raster.pc = "binary" /\ Len(raster.stages) < MaxStages
  /\ raster' = [raster EXCEPT !.image = morphologyCleanup(@),
                              !.stages = Append(@, "morphologyCleanup")]
  /\ UNCHANGED notRaster

\* removeSpeckles(result, minArea) is entered
RemoveSpeckles ==
  /\ raster.pc = "binary" /\ Len(raster.stages) < MaxStages
  /\ \E minA \in SpeckleAreas :
       raster' = [raster EXCEPT !.pc = "sweep", !.minArea = minA, !.x = 0, !.y = 0,
                                !.visited = {}, !.cleanedData = raster.image.data,
                                !.stack = <<>>, !.component = <<>>, !.components = <<>>,
                                !.stages = Append(@, "removeSpeckles")]
  /\ UNCHANGED notRaster

\* the image removeSpeckles returned is the one the next stage is given
SpecklesRemoved ==
  /\ raster.pc = "done"
  /\ raster' = [raster EXCEPT !.pc = "binary", !.image.data = raster.cleanedData]
  /\ UNCHANGED notRaster

BinaryNext ==
  \/ BinarizeImage \/ MorphologyCleanup \/ RemoveSpeckles
  \/ SweepSkip \/ SweepFill \/ FloodPop \/ FloodReturn \/ SpecklesReturn
  \/ SpecklesRemoved

BinarySpec == BinaryInit /\ [][BinaryNext]_vars

\* every pixel is black or white and opaque
IsBinary(data) ==
  \A i \in DOMAIN data :
    /\ data[i].r \in {0, 255}
    /\ data[i].g = data[i].r /\ data[i].b = data[i].r
    /\ data[i].a = 255

\* the image a stage has returned
StageOutput ==
  IF raster.pc = "binary" THEN raster.image.data ELSE raster.cleanedData

\* the binary-stage invariant alone: whatever binarizeImage, and any row of
\* morphologyCleanup and removeSpeckles after it, returns is black and
\* white and opaque
BinaryStageInvariant ==
  raster.pc \in {"binary", "done"} => IsBinary(StageOutput)

\* a wholly transparent grey pixel has gone through a closing and a
\* speckle removal
BinaryStageWitness ==
  /\ raster.pc = "binary"
  /\ raster.stages = <<"morphologyCleanup", "removeSpeckles">>
  /\ \E i \in DOMAIN raster.source.data : raster.source.data[i].a = 0
  /\ \E i \in DOMAIN raster.image.data : raster.image.data[i].r = 0
  /\ \E i \in DOMAIN raster.image.data : raster.image.data[i].r = 255

\* C27: whatever binarizeImage, and any row of morphologyCleanup and
\* removeSpeckles after it, returns has in every pixel R = G = B in
\* {0, 255} and an alpha of 255, and binarizeImage sets a pixel to 255
\* exactly when 0.299 R + 0.587 G + 0.114 B >= threshold.
C27_BinaryByLuminance ==
  /\ raster.pc \in {"binary", "done"} => IsBinary(StageOutput)
  /\ (raster.pc = "binary" /\ raster.stages = <<>>) =>
       \A i \in DOMAIN raster.source.data :
         LET px == raster.source.data[i]
         IN  raster.image.data[i].r = 255
               <=> 299 * px.r + 587 * px.g + 114 * px.b >= 1000 * raster.threshold

---------------------------------------------------------------------------
(* geometry.ts: isValidPolygon, hasSelfIntersections, lineSegmentsIntersect *)

\* (c.x - a.x) * (b.y - a.y) - (b.x - a.x) * (c.y - a.y)
directionOf(a, b, c) == (c.x - a.x) * (b.y - a.y) - (b.x - a.x) * (c.y - a.y)

\* q lies in the bounding box of p and r
onSegment(p, q, r) ==
  /\ q.x <= (IF p.x > r.x THEN p.x ELSE r.x) /\ q.x >= (IF p.x < r.x THEN p.x ELSE r.x)
  /\ q.y <= (IF p.y > r.y THEN p.y ELSE r.y) /\ q.y >= (IF p.y < r.y THEN p.y ELSE r.y)

lineSegmentsIntersect(p1, p2, p3, p4) ==
  LET d1 == directionOf(p3, p4, p1)
      d2 == directionOf(p3, p4, p2)
      d3 == directionOf(p1, p2, p3)
      d4 == directionOf(p1, p2, p4)
  IN  \/ /\ (d1 > 0 /\ d2 < 0) \/ (d1 < 0 /\ d2 > 0)
         /\ (d3 > 0 /\ d4 < 0) \/ (d3 < 0 /\ d4 > 0)
      \/ d1 = 0 /\ onSegment(p3, p1, p4)
      \/ d2 = 0 /\ onSegment(p3, p2, p4)
      \/ d3 = 0 /\ onSegment(p1, p3, p2)
      \/ d4 = 0 /\ onSegment(p1, p4, p2)

\* the pair of the first and the last edge is passed over
SkippedPair(ps, i, j) == j = Len(ps) - 1 /\ i = 1

\* edge i runs from points[i] to points[i + 1], i from 1 on
hasSelfIntersections(ps) ==
  IF Len(ps) < 4 THEN FALSE
  ELSE \E i \in 1..Len(ps) - 1 : \E j \in i + 2..Len(ps) - 1 :
         /\ ~SkippedPair(ps, i, j)
         /\ lineSegmentsIntersect(ps[i], ps[i + 1], ps[j], ps[j + 1])

isValidPolygon(polygon) ==
  IF Len(polygon.exterior) < 3 THEN FALSE
  ELSE IF \E h \in 1..Len(polygon.holes) : Len(polygon.holes[h]) < 3 THEN FALSE
  ELSE IF calculatePolygonArea(polygon.exterior) <= 0 THEN FALSE
  ELSE ~hasSelfIntersections(polygon.exterior)

ValidityPoints == { Pt(px, py) : px \in {0, 2}, py \in {0, 1, 2} }

\* no hole, a hole of two points, a hole of three
ValidityHoles ==
  { <<>>, << <<Pt(0, 0), Pt(1, 1)>> >>, << <<Pt(0, 0), Pt(1, 0), Pt(1, 1)>> >> }

ValidityInit ==
  /\ ContourIdle
  /\ ExportIdle /\ WindingIdle /\ ServerIdle
  /\ polygons = <<>> /\ gpc = "idle" /\ vi = 0
  /\ validPolygons = <<>> /\ emitted = <<>> /\ repairs = <<>>
  /\ minArea = 0 /\ cleaned = <<>> /\ closings = <<>>
  /\ dedup = <<>> /\ simplifyRun = <<>> /\ raster = <<>> /\ hedProc = <<>>
  /\ \E e \in Rings(ValidityPoints), hs \in ValidityHoles :
       validity = [polygon |-> Poly(e, hs), called |-> FALSE, result |-> FALSE]

\* isValidPolygon(polygon)
IsValidPolygon ==
  /\ ~validity.called
  /\ validity' = [validity EXCEPT !.called = TRUE,
                                  !.result = isValidPolygon(validity.polygon)]
  /\ UNCHANGED <<contourVars, geomVars, exportVars, winding, serverVars, dedup,
                 simplifyRun, raster, hedProc>>

ValiditySpec == ValidityInit /\ [][IsValidPolygon]_vars

\* the ring ends where it starts
ClosedRing(ps) == Len(ps) > 1 /\ ps[1] = ps[Len(ps)]

\* edges i and j of the ring follow one another
AdjacentEdges(ps, i, j) ==
  \/ Abs(i - j) <= 1
  \/ ClosedRing(ps) /\ {i, j} = {1, Len(ps) - 1}

\* the closed segments ab and cd have a point in common: neither lies
\* wholly on one side of the other's line, and their bounding boxes meet
SegmentsMeet(a, b, c, d) ==
  /\ directionOf(a, b, c) * directionOf(a, b, d) <= 0
  /\ directionOf(c, d, a) * directionOf(c, d, b) <= 0
  /\ \A axis \in {"x", "y"} :
       LET lo(p, q) == IF p[axis] < q[axis] THEN p[axis] ELSE q[axis]
           hi(p, q) == IF p[axis] > q[axis] THEN p[axis] ELSE q[axis]
       IN  lo(a, b) <= hi(c, d) /\ lo(c, d) <= hi(a, b)

\* two edges that do not follow one another have a point in common
NonAdjacentEdgesMeet(ps) ==
  \E i \in 1..Len(ps) - 1 : \E j \in 1..Len(ps) - 1 :
    /\ i < j /\ ~AdjacentEdges(ps, i, j)
    /\ SegmentsMeet(ps[i], ps[i + 1], ps[j], ps[j + 1])

\* C28: isValidPolygon(p) is true if and only if the exterior has at least
\* 3 points, every hole has at least 3 points, the unsigned area of the
\* exterior is above 0 and no two edges of the exterior that are not
\* adjacent intersect, a shared point or a collinear overlap being an
\* intersection and the first and the last edge of a closed ring being
\* adjacent.
C28_ValidIffSimple ==
  validity.called =>
    LET p == validity.polygon
    IN  validity.result
          <=> /\ Len(p.exterior) >= 3
              /\ \A h \in 1..Len(p.holes) : Len(p.holes[h]) >= 3
              /\ Abs(calculateSignedArea(p.exterior)) > 0
              /\ ~NonAdjacentEdgesMeet(p.exterior)

\* the same with the first and the last edge adjacent in every ring, which
\* is what the code checks
ValidIffSimpleOrOpen ==
  validity.called =>
    LET p == validity.polygon
    IN  validity.result
          <=> /\ Len(p.exterior) >= 3
              /\ \A h \in 1..Len(p.holes) : Len(p.holes[h]) >= 3
              /\ Abs(calculateSignedArea(p.exterior)) > 0
              /\ ~\E i \in 1..Len(p.exterior) - 1 : \E j \in 1..Len(p.exterior) - 1 :
                    /\ j > i + 1 /\ ~(i = 1 /\ j = Len(p.exterior) - 1)
                    /\ SegmentsMeet(p.exterior[i], p.exterior[i + 1],
                                    p.exterior[j], p.exterior[j + 1])

---------------------------------------------------------------------------
(* hed.ts: the inference session shared by the calls of processWithHED     *)
(*                                                                         *)
(* The calls run on one thread: a call runs without interruption up to its *)
(* next await, and the other calls run while it waits.  A session is a     *)
(* number from 1 on, in the order the sessions were created; 0 is null.    *)
(* `hedProc` holds hedSession, the sessions created, those released, the   *)
(* position of every call and whether the process has exited.              *)

MaxCallers == 3

Callers == 1..MaxCallers

HedInit ==
  /\ ContourIdle
  /\ ExportIdle /\ WindingIdle /\ ServerIdle
  /\ polygons = <<>> /\ gpc = "idle" /\ vi = 0
  /\ validPolygons = <<>> /\ emitted = <<>> /\ repairs = <<>>
  /\ minArea = 0 /\ cleaned = <<>> /\ closings = <<>>
  /\ dedup = <<>> /\ simplifyRun = <<>> /\ raster = <<>> /\ validity = <<>>
  /\ \E there \in BOOLEAN :
       hedProc = [hedSession |-> 0, created |-> {}, released |-> {},
                  modelFound |-> there, exited |-> FALSE,
                  at |-> [c \in Callers |-> "idle"],
                  session |-> [c \in Callers |-> 0]]

notHed == <<contourVars, geomVars, exportVars, winding, serverVars, dedup,
            simplifyRun, raster, validity>>

\* if (hedSession) return hedSession; then session.run(feeds) is awaited
ReuseSession(c) ==
  /\ ~hedProc.exited /\ hedProc.at[c] = "idle"
  /\ hedProc.hedSession # 0
  /\ hedProc' = [hedProc EXCEPT !.at[c] = "running", !.session[c] = hedProc.hedSession]
  /\ UNCHANGED notHed

\* if (!fs.existsSync(modelPath)) return null; the image is returned as it is
ModelNotFound(c) ==
  /\ ~hedProc.exited /\ hedProc.at[c] = "idle"
  /\ hedProc.hedSession = 0 /\ ~hedProc.modelFound
  /\ hedProc' = [hedProc EXCEPT !.at[c] = "original"]
  /\ UNCHANGED notHed

\* ort.InferenceSession.create(modelPath, ...) is called and awaited
CreateSession(c) ==
  /\ ~hedProc.exited /\ hedProc.at[c] = "idle"
  /\ hedProc.hedSession = 0 /\ hedProc.modelFound
  /\ hedProc' = [hedProc EXCEPT !.at[c] = "creating"]
  /\ UNCHANGED notHed

\* hedSession = the session created; then session.run(feeds) is awaited
SessionCreated(c) ==
  /\ ~hedProc.exited /\ hedProc.at[c] = "creating"
  /\ LET new == Cardinality(hedProc.created) + 1
     IN  hedProc' = [hedProc EXCEPT !.created = @ \cup {new}, !.hedSession = new,
                                    !.at[c] = "running", !.session[c] = new]
  /\ UNCHANGED notHed

\* the creation fails: catch, return null; the image is returned as it is
CreateFails(c) ==
  /\ ~hedProc.exited /\ hedProc.at[c] = "creating"
  /\ hedProc' = [hedProc EXCEPT !.at[c] = "original"]
  /\ UNCHANGED notHed

\* session.run has resolved: the processed image is returned
RunResolves(c) ==
  /\ ~hedProc.exited /\ hedProc.at[c] = "running"
  /\ hedProc' = [hedProc EXCEPT !.at[c] = "processed"]
  /\ UNCHANGED notHed

\* session.run has rejected, or the output is not an edge map: throw error
RunRejects(c) ==
  /\ ~hedProc.exited /\ hedProc.at[c] = "running"
  /\ hedProc' = [hedProc EXCEPT !.at[c] = "thrown"]
  /\ UNCHANGED notHed

\* process.on('exit'), process.on('SIGINT'): if (hedSession) hedSession.release()
ProcessExit ==
  /\ ~hedProc.exited
  /\ hedProc' = [hedProc EXCEPT !.exited = TRUE,
                                !.released = IF hedProc.hedSession # 0
                                             THEN {hedProc.hedSession} ELSE {}]
  /\ UNCHANGED notHed

HedNext ==
  \/ \E c \in Callers :
       \/ ReuseSession(c) \/ ModelNotFound(c) \/ CreateSession(c)
       \/ SessionCreated(c) \/ CreateFails(c)
       \/ RunResolves(c) \/ RunRejects(c)
  \/ ProcessExit

HedSpec == HedInit /\ [][HedNext]_vars

\* C30: whatever the interleaving of the calls of processWithHED, at most
\* one inference session is ever created, every session created is the one
\* hedSession holds, and the exit handlers release every session created.
C30_OneSessionHeld ==
  /\ Cardinality(hedProc.created) <= 1
  /\ \A s \in hedProc.created : hedProc.hedSession = s
  /\ hedProc.exited => hedProc.released = hedProc.created

====
